---- MODULE Spec2Model ----
(***************************************************************************)
(* Multi-layer context foundation: the orchestrator and its memory tiers.  *)
(*                                                                         *)
(* Time is a discrete clock `now`; one tick stands for one hour, so the    *)
(* retrieval recency 1/(1 + age_hours/24) is 24/(24 + age) and the session *)
(* eviction recency 1/(1 + age_hours) is 1/(1 + age).  TTLs are in ticks.  *)
(* Scores are exact rationals [num, den] compared by cross multiplication  *)
(* (floating point rounding is not modelled).  Strings are sequences of    *)
(* one-character strings.  Python's hash() and md5 are taken to be         *)
(* injective on the strings that occur.  A ContextItem is one heap object  *)
(* shared by every tier that holds it: tiers hold ids into `heap`.         *)
(***************************************************************************)
EXTENDS Integers, Sequences, FiniteSets, TLC

VARIABLES
    cfg,        \* OrchestratorConfig / constructor arguments (fixed by Init)
    now,        \* datetime.utcnow(), in ticks
    heap,       \* id -> ContextItem (objects shared between tiers)
    buffer,     \* ImmediateContextBuffer._buffer (deque of item ids, oldest first)
    sess,       \* SessionMemory._items (dict: ids in insertion order)
    convIdx,    \* SessionMemory._conversations (conversation_id -> set of ids)
    taskIdx,    \* SessionMemory._tasks (task_id -> set of ids)
    lt,         \* LongTermStore._items (dict: ids in insertion order)
    ltTasks,    \* asyncio tasks created for long_term_store.add_async, not yet run
    cache,      \* ContextOrchestrator._context_cache (entries in insertion order)
    metrics,    \* ContextMetrics and the tiers' own counters
    resps,      \* ContextResponse objects ever built (cache and callers share them)
    coros,      \* suspended store/retrieve coroutines (at their await)
    out,        \* what the last completed call returned / observed
    bm25,       \* BM25Search: documents, inverted_index, doc_freqs, idf_scores, statistics
    chunker,    \* AdaptiveChunker and the frame of its chunk_text call
    fusion,     \* HybridRetriever: weights, component result lists, fused results
    threads     \* threads inside get_recent / search (at a bytecode of mark_accessed)

\* the retrieval package and the threads, which the orchestrator calls leave alone
restVars == <<bm25, chunker, fusion, threads>>

vars == <<cfg, now, heap, buffer, sess, convIdx, taskIdx, lt, ltTasks, cache, resps, metrics, coros, out,
          bm25, chunker, fusion, threads>>

----------------------------------------------------------------------------
(* Bounds of the model *)

MaxClock == 2
MaxItems == 2
MaxCalls == 2

----------------------------------------------------------------------------
(* Strings *)

Space == " "
Newline == "\n"

IsSpace(c) == c \in {Space, Newline}

LowerChar(c) == IF c = "A" THEN "a" ELSE IF c = "B" THEN "b" ELSE c

Lower(s) == [i \in 1..Len(s) |-> LowerChar(s[i])]

RECURSIVE LStrip(_)
LStrip(s) == IF s # <<>> /\ IsSpace(s[1]) THEN LStrip(Tail(s)) ELSE s

RECURSIVE RStrip(_)
RStrip(s) == IF s # <<>> /\ IsSpace(s[Len(s)]) THEN RStrip(SubSeq(s, 1, Len(s) - 1)) ELSE s

Strip(s) == RStrip(LStrip(s))

\* str.split(): the maximal runs of non-whitespace characters, as a set
Split(s) ==
    { SubSeq(s, i, j) : <<i, j>> \in
        { p \in (1..Len(s)) \X (1..Len(s)) :
            /\ p[1] <= p[2]
            /\ \A k \in p[1]..p[2] : ~IsSpace(s[k])
            /\ (p[1] = 1 \/ IsSpace(s[p[1] - 1]))
            /\ (p[2] = Len(s) \/ IsSpace(s[p[2] + 1])) } }

\* `w in s` for strings
IsSubstr(w, s) ==
    \/ w = <<>>
    \/ \E i \in 1..(Len(s) - Len(w) + 1) : SubSeq(s, i, i + Len(w) - 1) = w

\* the dedup key: hash(content.strip().lower())
ContentHash(s) == Lower(Strip(s))

----------------------------------------------------------------------------
(* Rationals *)

Frac(n, d) == [num |-> n, den |-> d]

\* a > b and a >= b for fractions with positive denominators
FracGt(a, b) == a.num * b.den > b.num * a.den

FracGe(a, b) == a.num * b.den >= b.num * a.den

Range(s) == { s[i] : i \in 1..Len(s) }

Reverse(s) == [i \in 1..Len(s) |-> s[Len(s) + 1 - i]]

Take(s, n) == SubSeq(s, 1, IF n < Len(s) THEN n ELSE Len(s))

\* list.sort(key=lambda x: x.score, reverse=True): descending and stable,
\* on a list of records that carry their sort key in the field score
RECURSIVE SortDesc(_)
SortDesc(s) ==
    IF s = <<>> THEN <<>>
    ELSE LET rest == SortDesc(SubSeq(s, 1, Len(s) - 1))
             x == s[Len(s)]
             \* x goes after every element whose key is not smaller than its own
             pos == Cardinality({ i \in 1..Len(rest) :
                                    \A j \in 1..i : ~FracGt(x.score, rest[j].score) })
         IN SubSeq(rest, 1, pos) \o <<x>> \o SubSeq(rest, pos + 1, Len(rest))

----------------------------------------------------------------------------
(* ContextItem *)

Absent == "<absent>"
FloatValue == "<float>"
NoConv == "<none>"
NoTime == -1

\* metadata.get(key, default)
MetaGet(v, default) == IF v = Absent THEN default ELSE v

Meta(importance, type, persistence, task_id) ==
    [importance |-> importance, importance_val |-> Frac(0, 1), type |-> type,
     persistence |-> persistence, task_id |-> task_id,
     original_count |-> 0, consolidated_at |-> NoTime]

\* ContextItem._calculate_importance, times 10
CalculateImportance(meta) ==
    LET importance == MetaGet(meta.importance, "normal")
    IN CASE importance = "critical" -> 15
         [] importance = "high" -> 12
         [] importance = "normal" -> 10
         [] importance = "low" -> 8
         [] importance = "minimal" -> 5
         [] OTHER -> 10

\* ContextItem(...) followed by __post_init__
ContextItem(content, meta, conv, ts) ==
    [content |-> content, metadata |-> meta, timestamp |-> ts, conversation_id |-> conv,
     access_count |-> 0, last_accessed |-> NoTime,
     importance_score |-> CalculateImportance(meta), relevance_score |-> Frac(0, 1)]

\* ContextItem.mark_accessed applied to the objects ids (a list without repeats)
MarkAccessed(h, ids, t) ==
    [i \in DOMAIN h |->
        IF i \in Range(ids)
        THEN [h[i] EXCEPT !.access_count = @ + 1, !.last_accessed = t]
        ELSE h[i]]

\* Python truthiness of an optional conversation id (None and "" are falsy)
ConvSet(conv) == conv # NoConv /\ conv # ""

----------------------------------------------------------------------------
(* ImmediateContextBuffer *)

\* a deque that drops its newest item when full
DequeAppendDropsNewest(buf, x, maxlen) ==
    IF maxlen = 0 THEN <<>>
    ELSE IF Len(buf) >= maxlen THEN Append(SubSeq(buf, 1, Len(buf) - 1), x)
    ELSE Append(buf, x)

\* deque(maxlen=max_size).append
DequeAppend(buf, x, maxlen) ==
    IF maxlen = 0 THEN <<>>
    ELSE IF Len(buf) >= maxlen THEN Append(Tail(buf), x)
    ELSE Append(buf, x)

\* ImmediateContextBuffer._remove_expired: pops expired items off the head only
RECURSIVE RemoveExpired(_, _, _, _)
RemoveExpired(buf, h, ttl, t) ==
    IF ttl = 0 THEN buf
    ELSE IF buf # <<>> /\ h[buf[1]].timestamp < t - ttl
         THEN RemoveExpired(Tail(buf), h, ttl, t)
         ELSE buf

\* a get_recent that does not reverse: oldest first
GetRecentItemsOldestFirst(buf, h, max_items, conv) ==
    LET filtered == IF ConvSet(conv)
                    THEN SelectSeq(buf, LAMBDA i : h[i].conversation_id = conv)
                    ELSE buf
    IN IF max_items # 0 THEN Take(filtered, max_items) ELSE filtered

\* the list ImmediateContextBuffer.get_recent returns, from the purged deque
GetRecentItems(buf, h, max_items, conv) ==
    LET filtered == IF ConvSet(conv)
                    THEN SelectSeq(buf, LAMBDA i : h[i].conversation_id = conv)
                    ELSE buf
        newestFirst == Reverse(filtered)
    IN IF max_items # 0 THEN Take(newestFirst, max_items) ELSE newestFirst

\* ImmediateContextBuffer.clear
BufferCleared(buf, h, conv) ==
    IF ConvSet(conv)
    THEN SelectSeq(buf, LAMBDA i : h[i].conversation_id # conv)
    ELSE <<>>

----------------------------------------------------------------------------
(* SessionMemory *)

\* conversation and task ids the model draws from; the indices are defaultdicts,
\* a key that was never touched reads as the empty set
Convs == {"c1", "c2"}
Tasks == {"t1"}

EmptyIdx(keys) == [k \in keys |-> {}]

\* constructor defaults that the orchestrator never overrides
RelevanceThreshold == Frac(6, 10)
ConsolidateMinGroup == 5

\* datetime.timestamp() of tick 0, in ticks (hours since 1970)
EpochTicks == 480000

NoFilters == <<>>

\* SessionMemory._calculate_relevance
CalculateRelevanceSession(content, query) ==
    LET content_lower == Lower(content)
        query_words == Split(Lower(query))
        content_word_set == Split(content_lower)
        matches == Cardinality({ w \in query_words : IsSubstr(w, content_lower) })
        intersection == Cardinality(query_words \cap content_word_set)
        union == Cardinality(query_words \cup content_word_set)
        q == Cardinality(query_words)
    IN IF query_words = {} THEN Frac(0, 1)
       ELSE Frac(6 * matches * union + 4 * intersection * q, 10 * q * union)

\* SessionMemory._apply_filters for one item; a filter is [key, is_list, vals],
\* vals being the list of values, or the one value of a scalar filter
MetaField(meta, key) ==
    CASE key = "importance" -> meta.importance
      [] key = "type" -> meta.type
      [] key = "persistence" -> meta.persistence
      [] key = "task_id" -> meta.task_id
      [] OTHER -> Absent

ApplyFilters(meta, filters) ==
    \A i \in 1..Len(filters) :
        LET f == filters[i]
            v == MetaField(meta, f.key)
        IN /\ v # Absent
           /\ IF f.is_list THEN v \in Range(f.vals) ELSE <<v>> = f.vals

\* the candidates of SessionMemory.search after the conversation, task and metadata filters
SearchCandidates(S, h, filters, conv, task) ==
    LET c1 == IF ConvSet(conv) THEN SelectSeq(S.sess, LAMBDA i : i \in S.convIdx[conv]) ELSE S.sess
        c2 == IF task # Absent THEN SelectSeq(c1, LAMBDA i : i \in S.taskIdx[task]) ELSE c1
    IN IF filters # NoFilters THEN SelectSeq(c2, LAMBDA i : ApplyFilters(h[i].metadata, filters)) ELSE c2

\* is the item's relevance to the query at least the threshold
IsRelevant(item, query) ==
    FracGe(CalculateRelevanceSession(item.content, query), RelevanceThreshold)

\* the sort key relevance * importance_score of a relevance r
RelevanceKey(i, r, h) == [id |-> i, score |-> Frac(r.num * h[i].importance_score, r.den * 10)]

\* the sort key timestamp * importance_score
RecencyKey(i, h) ==
    [id |-> i, score |-> Frac((EpochTicks + h[i].timestamp) * h[i].importance_score, 10)]

\* the ids of a sorted list of keyed items, cut to max_results
TopIds(sorted, max_results) ==
    [k \in 1..(IF Len(sorted) < max_results THEN Len(sorted) ELSE max_results) |-> sorted[k].id]

\* the candidates kept by the threshold, keyed by relevance * importance_score
ByRelevance(kept, h, query) ==
    [k \in 1..Len(kept) |->
        RelevanceKey(kept[k], CalculateRelevanceSession(h[kept[k]].content, query), h)]

\* SessionMemory.search on its candidates: score and threshold, sort, cut
SearchRanked(candidates, h, query, max_results) ==
    IF query # <<>>
    THEN TopIds(SortDesc(ByRelevance(SelectSeq(candidates, LAMBDA i : IsRelevant(h[i], query)),
                                     h, query)), max_results)
    ELSE TopIds(SortDesc([k \in 1..Len(candidates) |-> RecencyKey(candidates[k], h)]), max_results)

\* SessionMemory.search: the ids returned, best first
SearchResults(S, h, query, max_results, filters, conv, task) ==
    SearchRanked(SearchCandidates(S, h, filters, conv, task), h, query, max_results)

\* the heap with relevance_score set on every candidate that passes the threshold
SearchScored(candidates, h, query) ==
    [i \in DOMAIN h |->
        IF query # <<>> /\ i \in Range(candidates) /\ IsRelevant(h[i], query)
        THEN [h[i] EXCEPT !.relevance_score = CalculateRelevanceSession(h[i].content, query)]
        ELSE h[i]]

\* the heap after SessionMemory.search: relevance_score set on every kept item,
\* then mark_accessed on the returned ones
SearchHeap(S, h, query, max_results, filters, conv, task, t) ==
    MarkAccessed(SearchScored(SearchCandidates(S, h, filters, conv, task), h, query),
                 SearchResults(S, h, query, max_results, filters, conv, task), t)

\* the eviction score of SessionMemory._evict_least_important
EvictScore(item, t) ==
    LET last_access == IF item.last_accessed # NoTime THEN item.last_accessed ELSE item.timestamp
    IN Frac(item.importance_score * (1 + item.access_count), 10 * (1 + (t - last_access)))

\* a victim choice that takes the last resident, in dict order, of minimal score
EvictVictimLast(ids, h, t) ==
    LET k == CHOOSE k \in 1..Len(ids) :
                /\ \A j \in 1..Len(ids) : ~FracGt(EvictScore(h[ids[k]], t), EvictScore(h[ids[j]], t))
                /\ \A j \in (k + 1)..Len(ids) : FracGt(EvictScore(h[ids[j]], t), EvictScore(h[ids[k]], t))
    IN ids[k]

\* scores.sort(key=score)[0]: the first resident, in dict order, of minimal score
EvictVictim(ids, h, t) ==
    LET k == CHOOSE k \in 1..Len(ids) :
                /\ \A j \in 1..Len(ids) : ~FracGt(EvictScore(h[ids[k]], t), EvictScore(h[ids[j]], t))
                /\ \A j \in 1..(k - 1) : FracGt(EvictScore(h[ids[j]], t), EvictScore(h[ids[k]], t))
    IN ids[k]

\* an _evict_least_important that evicts nothing
EvictLeastImportantKeepsAll(S, h, t) == S

\* SessionMemory._evict_least_important on the session state S = [sess, convIdx, taskIdx]
EvictLeastImportant(S, h, t) ==
    IF S.sess = <<>> THEN S
    ELSE LET evict_id == EvictVictim(S.sess, h, t)
             item == h[evict_id]
         IN [sess |-> SelectSeq(S.sess, LAMBDA i : i # evict_id),
             convIdx |-> IF ConvSet(item.conversation_id)
                         THEN [S.convIdx EXCEPT ![item.conversation_id] = @ \ {evict_id}]
                         ELSE S.convIdx,
             taskIdx |-> IF item.metadata.task_id # Absent
                         THEN [S.taskIdx EXCEPT ![item.metadata.task_id] = @ \ {evict_id}]
                         ELSE S.taskIdx]

\* the conversation keys of _conversations, in the order the model iterates them
ConvOrder == <<"c1", "c2">>

\* items.sort(key=timestamp) of the resident members of a group (ties: by id)
RECURSIVE SortByTimestamp(_, _)
SortByTimestamp(ids, h) ==
    IF ids = {} THEN <<>>
    ELSE LET first == CHOOSE i \in ids : \A j \in ids :
                        \/ h[i].timestamp < h[j].timestamp
                        \/ (h[i].timestamp = h[j].timestamp /\ i <= j)
         IN <<first>> \o SortByTimestamp(ids \ {first}, h)

\* SessionMemory._find_consolidation_candidates: the groups, each a list of resident ids
FindConsolidationCandidates(S, h) ==
    LET convs == SelectSeq(ConvOrder, LAMBDA c : Cardinality(S.convIdx[c]) >= ConsolidateMinGroup)
    IN [k \in 1..Len(convs) |-> SortByTimestamp(S.convIdx[convs[k]] \cap Range(S.sess), h)]

\* sum(...) / len(items) divides by zero when no listed id is resident any more
ConsolidationRaises(S, h) ==
    \E g \in Range(FindConsolidationCandidates(S, h)) : g = <<>>

\* SessionMemory._summarize_items: "[HH:MM] content" lines joined by newlines
RECURSIVE SummarizeItems(_, _)
SummarizeItems(items, h) ==
    IF items = <<>> THEN <<>>
    ELSE LET line == <<"[", ToString(h[items[1]].timestamp), "]", Space>> \o h[items[1]].content
         IN IF Len(items) = 1 THEN line
            ELSE line \o <<Newline>> \o SummarizeItems(Tail(items), h)

RECURSIVE SumImportance(_, _)
SumImportance(items, h) ==
    IF items = <<>> THEN 0 ELSE h[items[1]].importance_score + SumImportance(Tail(items), h)

\* SessionMemory._create_consolidated_item: __post_init__ recomputes importance_score
\* from metadata, where "importance" now holds the mean as a float
CreateConsolidatedItem(items, h, t) ==
    ContextItem(
        SummarizeItems(items, h),
        [importance |-> FloatValue,
         importance_val |-> Frac(SumImportance(items, h), 10 * Len(items)),
         type |-> "consolidated", persistence |-> Absent, task_id |-> Absent,
         original_count |-> Len(items), consolidated_at |-> t],
        h[items[1]].conversation_id,
        h[items[1]].timestamp)

\* the loop of SessionMemory._consolidate over the candidates found up front;
\* SH = [S, h] is the session state with the heap
RECURSIVE ConsolidateGroups(_, _, _)
ConsolidateGroups(SH, groups, t) ==
    IF groups = <<>> THEN SH
    ELSE LET items == groups[1]
             newId == Len(SH.h) + 1
             removed == SelectSeq(SH.S.sess, LAMBDA i : i \notin Range(items))
         IN ConsolidateGroups(
                [S |-> [SH.S EXCEPT !.sess = Append(removed, newId)],
                 h |-> Append(SH.h, CreateConsolidatedItem(items, SH.h, t))],
                Tail(groups), t)

\* SessionMemory._consolidate (when it does not raise)
Consolidate(S, h, t) == ConsolidateGroups([S |-> S, h |-> h], FindConsolidationCandidates(S, h), t)

\* does SessionMemory.add take its consolidation branch
ConsolidationDue(S, c) ==
    c.enable_consolidation /\ Len(S.sess) >= c.session_consolidation_threshold

\* SessionMemory.add, the insertion: the item into _items and the two indices
SessionInsert(S, item, id) ==
    [sess |-> IF id \in Range(S.sess) THEN S.sess ELSE Append(S.sess, id),
     convIdx |-> IF ConvSet(item.conversation_id)
                 THEN [S.convIdx EXCEPT ![item.conversation_id] = @ \cup {id}]
                 ELSE S.convIdx,
     taskIdx |-> IF item.metadata.task_id # Absent
                 THEN [S.taskIdx EXCEPT ![item.metadata.task_id] = @ \cup {id}]
                 ELSE S.taskIdx]

\* SessionMemory.add from its capacity check on; SH = [S, h] is the state the
\* consolidation branch left
SessionEvictInsert(SH, id, c, t, consolidated) ==
    LET doEvict == Len(SH.S.sess) >= c.session_max_size
    IN [raised |-> FALSE,
        S |-> SessionInsert(IF doEvict THEN EvictLeastImportant(SH.S, SH.h, t) ELSE SH.S,
                            SH.h[id], id),
        h |-> SH.h,
        evicted |-> doEvict /\ SH.S.sess # <<>>,
        consolidated |-> consolidated]

\* SessionMemory.add of the object heap[id]; h already holds the object.
\* Yields [raised, S, h, evicted, consolidated].
SessionAdd(S, h, id, c, t) ==
    IF ~ConsolidationDue(S, c)
    THEN SessionEvictInsert([S |-> S, h |-> h], id, c, t, FALSE)
    ELSE IF ConsolidationRaises(S, h)
    THEN [raised |-> TRUE, S |-> S, h |-> h, evicted |-> FALSE, consolidated |-> FALSE]
    ELSE SessionEvictInsert(Consolidate(S, h, t), id, c, t,
                            FindConsolidationCandidates(S, h) # <<>>)

\* SessionMemory.clear_conversation
ClearConversation(S, conv) ==
    [S EXCEPT !.sess = SelectSeq(S.sess, LAMBDA i : i \notin S.convIdx[conv]),
              !.convIdx = [S.convIdx EXCEPT ![conv] = {}]]

\* SessionMemory.clear_task: removes only the members that have no conversation
ClearTask(S, h, task) ==
    [S EXCEPT !.sess = SelectSeq(S.sess,
                          LAMBDA i : ~(i \in S.taskIdx[task] /\ ~ConvSet(h[i].conversation_id))),
              !.taskIdx = [S.taskIdx EXCEPT ![task] = {}]]

SessionState == [sess |-> sess, convIdx |-> convIdx, taskIdx |-> taskIdx]

----------------------------------------------------------------------------
(* ContextRequest, ContextResponse *)

NoTokens == -1

Request(query, max_results, max_tokens, inc_imm, inc_sess, inc_lt, filters, conv) ==
    [query |-> query, max_results |-> max_results, max_tokens |-> max_tokens,
     include_immediate |-> inc_imm, include_session |-> inc_sess, include_long_term |-> inc_lt,
     strategy |-> "hybrid", filters |-> filters, conversation_id |-> conv]

\* str(filters): the rendering of a filters dict
RECURSIVE FiltersStr(_)
FiltersStr(filters) ==
    IF filters = <<>> THEN <<>>
    ELSE LET f == filters[1]
         IN <<f.key, ":">> \o (IF f.is_list THEN <<"[">> \o f.vals \o <<"]">> ELSE f.vals)
            \o <<",">> \o FiltersStr(Tail(filters))

\* ContextRequest.cache_key: md5 of "query|max_results|strategy|filters|conversation_id"
CacheKey(req) ==
    req.query \o <<"|", ToString(req.max_results), "|", req.strategy, "|">>
    \o FiltersStr(req.filters) \o <<"|">>
    \o (IF ConvSet(req.conversation_id) THEN <<req.conversation_id>> ELSE <<>>)

\* ContextResponse.total_tokens and the per item estimate of _apply_token_budget
ItemTokens(content) == Len(content) \div 4

----------------------------------------------------------------------------
(* ContextOrchestrator: pure parts *)

LAYER_IMMEDIATE == "immediate"
LAYER_SESSION == "session"
LAYER_LONG_TERM == "long_term"
NoHint == "<no hint>"

\* a routing that does not send preferences to LongTerm
DetermineStorageLayersNoPreference(meta, enable_long_term) ==
    LET importance == MetaGet(meta.importance, "normal")
        item_type == MetaGet(meta.type, "general")
        persistence == MetaGet(meta.persistence, "session")
    IN <<LAYER_IMMEDIATE>>
       \o (IF importance \in {"high", "critical"} \/ item_type \in {"task", "decision", "preference"}
           THEN <<LAYER_SESSION>> ELSE <<>>)
       \o (IF (persistence = "permanent" \/ item_type \in {"fact", "knowledge"})
              /\ enable_long_term
           THEN <<LAYER_LONG_TERM>> ELSE <<>>)

\* ContextOrchestrator._determine_storage_layers
DetermineStorageLayers(meta, enable_long_term) ==
    LET importance == MetaGet(meta.importance, "normal")
        item_type == MetaGet(meta.type, "general")
        persistence == MetaGet(meta.persistence, "session")
    IN <<LAYER_IMMEDIATE>>
       \o (IF importance \in {"high", "critical"} \/ item_type \in {"task", "decision", "preference"}
           THEN <<LAYER_SESSION>> ELSE <<>>)
       \o (IF (persistence = "permanent" \/ item_type \in {"fact", "knowledge", "preference"})
              /\ enable_long_term
           THEN <<LAYER_LONG_TERM>> ELSE <<>>)

\* a _matches_query that does not lowercase the content
MatchesQueryCaseSensitive(content, query) ==
    \E word \in Split(query) : IsSubstr(Lower(word), content)

\* ContextOrchestrator._matches_query
MatchesQuery(content, query) ==
    \E word \in Split(query) : IsSubstr(Lower(word), Lower(content))

\* 0.5 + 0.5 * ContextOrchestrator._calculate_relevance(content, query)
RelevanceFactor(content, query) ==
    LET query_words == Split(Lower(query))
        content_words == Split(Lower(content))
        intersection == Cardinality(query_words \cap content_words)
        union == Cardinality(query_words \cup content_words)
    IN IF query_words = {} THEN Frac(1, 2) ELSE Frac(union + intersection, 2 * union)

LayerWeight(layer) ==
    CASE layer = LAYER_IMMEDIATE -> 10
      [] layer = LAYER_SESSION -> 8
      [] layer = LAYER_LONG_TERM -> 6
      [] OTHER -> 5

\* the importance multiplier of _calculate_score, times 10 ("minimal" is not in its map)
ImportanceMultiplier(meta) ==
    LET importance == MetaGet(meta.importance, "normal")
    IN CASE importance = "critical" -> 15
         [] importance = "high" -> 12
         [] importance = "normal" -> 10
         [] importance = "low" -> 8
         [] OTHER -> 10

\* ContextOrchestrator._calculate_score
CalculateScore(item, query, layer, t) ==
    LET rel == IF query # <<>> THEN RelevanceFactor(item.content, query) ELSE Frac(1, 1)
    IN Frac(LayerWeight(layer) * 24 * rel.num * ImportanceMultiplier(item.metadata),
            10 * (24 + (t - item.timestamp)) * rel.den * 10)

\* the scored candidates of one tier
Scored(ids, h, query, layer, t) ==
    [k \in 1..Len(ids) |->
        [id |-> ids[k], score |-> CalculateScore(h[ids[k]], query, layer, t), layer |-> layer]]

\* a _deduplicate iteration that keeps the first item of a key, whatever the scores
DedupStepKeepsFirst(acc, x, h) ==
    LET key == ContentHash(h[x.id].content)
        same == { k \in 1..Len(acc.unique) : ContentHash(h[acc.unique[k].id].content) = key }
    IN IF x.id \in acc.seen_ids \/ same # {} THEN acc
       ELSE [seen_ids |-> acc.seen_ids \cup {x.id}, unique |-> Append(acc.unique, x)]

\* ContextOrchestrator._deduplicate, one loop iteration; acc = [seen_ids, unique]
DedupStep(acc, x, h) ==
    LET key == ContentHash(h[x.id].content)
        same == { k \in 1..Len(acc.unique) : ContentHash(h[acc.unique[k].id].content) = key }
        existing == acc.unique[CHOOSE k \in same : TRUE]
    IN IF x.id \in acc.seen_ids THEN acc
       ELSE IF same # {}
            THEN IF FracGt(x.score, existing.score)
                 THEN [seen_ids |-> acc.seen_ids \cup {x.id},
                       unique |-> Append(SelectSeq(acc.unique,
                                     LAMBDA u : ContentHash(h[u.id].content) # key), x)]
                 ELSE acc
            ELSE [seen_ids |-> acc.seen_ids \cup {x.id}, unique |-> Append(acc.unique, x)]

RECURSIVE DedupLoop(_, _, _)
DedupLoop(acc, items, h) ==
    IF items = <<>> THEN acc ELSE DedupLoop(DedupStep(acc, items[1], h), Tail(items), h)

\* ContextOrchestrator._deduplicate
Deduplicate(items, h) == DedupLoop([seen_ids |-> {}, unique |-> <<>>], items, h).unique

\* ContextOrchestrator._apply_token_budget
RECURSIVE ApplyTokenBudget(_, _, _, _)
ApplyTokenBudget(items, h, max_tokens, total_tokens) ==
    IF items = <<>> THEN <<>>
    ELSE LET item_tokens == ItemTokens(h[items[1].id].content)
         IN IF total_tokens + item_tokens <= max_tokens
            THEN <<items[1]>> \o ApplyTokenBudget(Tail(items), h, max_tokens, total_tokens + item_tokens)
            ELSE <<>>

\* Python truthiness of request.max_tokens (None and 0 are falsy)
TokensSet(max_tokens) == max_tokens # NoTokens /\ max_tokens # 0

\* ContextOrchestrator._assemble_context, from the merged scored candidates
AssembleContext(all_items, h, req) ==
    LET unique_items == SortDesc(Deduplicate(all_items, h))
        final_items == IF TokensSet(req.max_tokens)
                       THEN ApplyTokenBudget(unique_items, h, req.max_tokens, 0)
                       ELSE Take(unique_items, req.max_results)
    IN [k \in 1..Len(final_items) |-> final_items[k].id]

----------------------------------------------------------------------------
(* ContextOrchestrator: the calls, as functions of the world W (a record   *)
(* of the variables' values) and the configuration c                      *)

World ==
    [now |-> now, heap |-> heap, buffer |-> buffer, sess |-> sess, convIdx |-> convIdx,
     taskIdx |-> taskIdx, lt |-> lt, ltTasks |-> ltTasks, cache |-> cache, resps |-> resps,
     metrics |-> metrics, out |-> out]

Commit(W) ==
    /\ now' = W.now
    /\ heap' = W.heap
    /\ buffer' = W.buffer
    /\ sess' = W.sess
    /\ convIdx' = W.convIdx
    /\ taskIdx' = W.taskIdx
    /\ lt' = W.lt
    /\ ltTasks' = W.ltTasks
    /\ cache' = W.cache
    /\ resps' = W.resps
    /\ metrics' = W.metrics
    /\ out' = W.out
    /\ UNCHANGED restVars

NoRequest == Request(<<>>, 0, NoTokens, FALSE, FALSE, FALSE, NoFilters, NoConv)

\* the observation of a call: op and status (ok, cached: served from the response
\* cache, raised: left by an exception), the item id a store made (id), the
\* request, response object, returned ids and merged scored candidates of a
\* retrieve, the time of return, and two running counts: the reading calls
\* so far and the id of the item of the last store (0: none)
Out(op, status, id, req, resp, ids, cands, t, prev) ==
    [op |-> op, status |-> status, id |-> id, req |-> req, resp |-> resp, ids |-> ids,
     cands |-> cands, at |-> t,
     retrieves |-> IF op \in {"retrieve", "get_recent", "search"}
                   THEN prev.retrieves + 1 ELSE prev.retrieves,
     last_store |-> IF op = "store" THEN (IF status = "ok" THEN id ELSE 0) ELSE prev.last_store]

NoOut ==
    [op |-> "init", status |-> "ok", id |-> 0, req |-> NoRequest, resp |-> 0, ids |-> <<>>,
     cands |-> <<>>, at |-> 0, retrieves |-> 0, last_store |-> 0]

ZeroMetrics ==
    [total_stores |-> 0, total_retrievals |-> 0, cache_hits |-> 0, cache_misses |-> 0,
     immediate_stores |-> 0, session_stores |-> 0, long_term_stores |-> 0,
     imm_adds |-> 0, imm_evictions |-> 0,
     sess_adds |-> 0, sess_evictions |-> 0, sess_consolidations |-> 0]

CacheLimit == 100
CacheDrop == 20

\* ImmediateContextBuffer.add
BufferAdd(W, c, id) ==
    [W EXCEPT !.buffer = DequeAppend(W.buffer, id, c.immediate_buffer_size),
              !.metrics.imm_adds = @ + 1,
              !.metrics.imm_evictions =
                  IF Len(W.buffer) >= c.immediate_buffer_size THEN @ + 1 ELSE @]

\* the world with the outcome r of a SessionMemory.add
SessionAdded(W, r) ==
    [W EXCEPT !.sess = r.S.sess, !.convIdx = r.S.convIdx, !.taskIdx = r.S.taskIdx,
              !.heap = r.h,
              !.metrics.sess_adds = @ + 1,
              !.metrics.sess_evictions = IF r.evicted THEN @ + 1 ELSE @,
              !.metrics.sess_consolidations = IF r.consolidated THEN @ + 1 ELSE @]

\* SessionMemory.add, when it does not raise
SessionAddW(W, c, id) ==
    SessionAdded(W, SessionAdd([sess |-> W.sess, convIdx |-> W.convIdx, taskIdx |-> W.taskIdx],
                               W.heap, id, c, W.now))

SessionAddRaises(W, c, id) ==
    /\ ConsolidationDue([sess |-> W.sess, convIdx |-> W.convIdx, taskIdx |-> W.taskIdx], c)
    /\ ConsolidationRaises([sess |-> W.sess, convIdx |-> W.convIdx, taskIdx |-> W.taskIdx], W.heap)

\* the target layers of ContextOrchestrator.store
TargetLayers(meta, hint, c) ==
    IF hint # NoHint THEN <<hint>> ELSE DetermineStorageLayers(meta, c.enable_long_term)

InSeq(x, s) == \E i \in 1..Len(s) : s[i] = x

\* store, the Immediate branch of its loop over the target layers
StoreImmediate(W, c, id, layers) ==
    IF InSeq(LAYER_IMMEDIATE, layers) THEN BufferAdd(W, c, id) ELSE W

\* store, the Session branch; session_memory.add may raise
StoreSession(W, c, id, layers) ==
    IF ~InSeq(LAYER_SESSION, layers) THEN [raised |-> FALSE, W |-> W]
    ELSE IF SessionAddRaises(W, c, id) THEN [raised |-> TRUE, W |-> W]
    ELSE [raised |-> FALSE, W |-> SessionAddW(W, c, id)]

\* store, up to the long-term branch: the item is built and written to the
\* Immediate and Session tiers.  Yields [raised, W].
StoreTiers(W, c, content, meta, hint, conv) ==
    StoreSession(
        StoreImmediate([W EXCEPT !.heap = Append(W.heap, ContextItem(content, meta, conv, W.now))],
                       c, Len(W.heap) + 1, TargetLayers(meta, hint, c)),
        c, Len(W.heap) + 1, TargetLayers(meta, hint, c))

\* does store reach long_term_store.add_async for these layers
WritesLongTerm(layers, c) == InSeq(LAYER_LONG_TERM, layers) /\ c.enable_long_term

\* LongTermStore.add_async
LongTermAdd(W, id) == [W EXCEPT !.lt = IF InSeq(id, W.lt) THEN W.lt ELSE Append(W.lt, id)]

\* a store that builds the add_async coroutine and never schedules it
LongTermScheduleDropped(W, id) == W

\* asyncio.create_task(long_term_store.add_async(item))
LongTermSchedule(W, id) == [W EXCEPT !.ltTasks = Append(W.ltTasks, id)]

\* ContextMetrics.record_storage
RecordStorage(m, layers) ==
    [m EXCEPT !.total_stores = @ + 1,
              !.immediate_stores = IF InSeq(LAYER_IMMEDIATE, layers) THEN @ + 1 ELSE @,
              !.session_stores = IF InSeq(LAYER_SESSION, layers) THEN @ + 1 ELSE @,
              !.long_term_stores = IF InSeq(LAYER_LONG_TERM, layers) THEN @ + 1 ELSE @]

\* an _invalidate_cache that leaves the cache as it is
InvalidateCacheKeeps(W) == W

\* ContextOrchestrator._invalidate_cache
InvalidateCache(W) == [W EXCEPT !.cache = <<>>]

\* store, after the long-term branch: metrics, cache invalidation, return
StoreFinish(W, c, id, layers) ==
    LET W1 == [W EXCEPT !.metrics = RecordStorage(W.metrics, layers)]
        W2 == IF c.enable_caching THEN InvalidateCache(W1) ELSE W1
    IN [W2 EXCEPT !.out = Out("store", "ok", id, NoRequest, 0, <<>>, <<>>, W.now, W.out)]

\* store left by an exception
StoreRaised(W, id) ==
    [W EXCEPT !.out = Out("store", "raised", id, NoRequest, 0, <<>>, <<>>, W.now, W.out)]

\* store from its LongTerm branch on; r = [raised, W] is what StoreTiers left
StoreLongTerm(r, c, id, layers, lt_fault) ==
    IF r.raised THEN StoreRaised(r.W, id)
    ELSE IF ~WritesLongTerm(layers, c) THEN StoreFinish(r.W, c, id, layers)
    ELSE IF c.enable_async THEN StoreFinish(LongTermSchedule(r.W, id), c, id, layers)
    ELSE IF lt_fault THEN StoreRaised(r.W, id)
    ELSE StoreFinish(LongTermAdd(r.W, id), c, id, layers)

\* ContextOrchestrator.store run without suspension; lt_fault: the long-term
\* backend raises in add_async
StoreCall(W, c, content, meta, hint, conv, lt_fault) ==
    StoreLongTerm(StoreTiers(W, c, content, meta, hint, conv), c, Len(W.heap) + 1,
                  TargetLayers(meta, hint, c), lt_fault)

\* position of key in the cache dict, 0 when absent
CacheIndex(entries, key) ==
    IF \E i \in 1..Len(entries) : entries[i].key = key
    THEN CHOOSE i \in 1..Len(entries) : entries[i].key = key
    ELSE 0

\* does _get_from_cache return a response
CacheHit(W, c, key) ==
    /\ CacheIndex(W.cache, key) # 0
    /\ ~(W.now - W.cache[CacheIndex(W.cache, key)].at > c.cache_ttl)

\* ContextOrchestrator._get_from_cache: an expired entry is deleted, a live one
\* is flagged cache_hit in place
GetFromCache(W, c, key) ==
    LET i == CacheIndex(W.cache, key)
    IN IF i = 0 THEN W
       ELSE IF W.now - W.cache[i].at > c.cache_ttl
            THEN [W EXCEPT !.cache = SelectSeq(W.cache, LAMBDA e : e.key # key)]
            ELSE [W EXCEPT !.resps[W.cache[i].resp].cache_hit = TRUE]

\* an _add_to_cache without the size limit
AddToCacheNoLimit(entries, key, resp, t) ==
    IF CacheIndex(entries, key) = 0
    THEN Append(entries, [key |-> key, resp |-> resp, at |-> t])
    ELSE [entries EXCEPT ![CacheIndex(entries, key)] = [key |-> key, resp |-> resp, at |-> t]]

\* ContextOrchestrator._add_to_cache
AddToCache(entries, key, resp, t) ==
    LET i == CacheIndex(entries, key)
        entry == [key |-> key, resp |-> resp, at |-> t]
        added == IF i = 0 THEN Append(entries, entry) ELSE [entries EXCEPT ![i] = entry]
        \* sorted(..., key=cached_at)[:20], the sort being stable
        rank(k) == Cardinality({ j \in 1..Len(added) :
                        \/ added[j].at < added[k].at
                        \/ (added[j].at = added[k].at /\ j < k) })
        keep == { k \in 1..Len(added) : rank(k) >= CacheDrop }
    IN IF Len(added) > CacheLimit
       THEN LET idx == SelectSeq([k \in 1..Len(added) |-> k], LAMBDA k : k \in keep)
            IN [k \in 1..Len(idx) |-> added[idx[k]]]
       ELSE added

\* ContextOrchestrator._retrieve_from_immediate: the ids it returns
RetrieveFromImmediate(W, c, req) ==
    LET purged == RemoveExpired(W.buffer, W.heap, c.immediate_buffer_ttl, W.now)
        results == GetRecentItems(purged, W.heap, req.max_results, req.conversation_id)
    IN IF ~req.include_immediate THEN <<>>
       ELSE IF req.query # <<>>
            THEN SelectSeq(results, LAMBDA i : MatchesQuery(W.heap[i].content, req.query))
            ELSE results

\* the world after _retrieve_from_immediate: get_recent purges and marks
AfterImmediate(W, c, req) ==
    LET purged == RemoveExpired(W.buffer, W.heap, c.immediate_buffer_ttl, W.now)
    IN IF ~req.include_immediate THEN W
       ELSE [W EXCEPT !.buffer = purged,
                      !.heap = MarkAccessed(W.heap,
                                  GetRecentItems(purged, W.heap, req.max_results, req.conversation_id),
                                  W.now)]

\* ContextOrchestrator._retrieve_from_session: the ids it returns
RetrieveFromSession(W, req) ==
    IF ~req.include_session THEN <<>>
    ELSE SearchResults([sess |-> W.sess, convIdx |-> W.convIdx, taskIdx |-> W.taskIdx], W.heap,
                       req.query, req.max_results, req.filters, req.conversation_id, Absent)

AfterSession(W, req) ==
    IF ~req.include_session THEN W
    ELSE [W EXCEPT !.heap =
            SearchHeap([sess |-> W.sess, convIdx |-> W.convIdx, taskIdx |-> W.taskIdx], W.heap,
                       req.query, req.max_results, req.filters, req.conversation_id, Absent, W.now)]

\* does retrieve reach long_term_store.search
ReadsLongTerm(c, req) == c.enable_long_term /\ req.include_long_term

\* LongTermStore.search: list(self._items.values())[:max_results]
LongTermSearch(W, req) == Take(W.lt, req.max_results)

\* retrieve returning the cached response object resp
ServeCached(W, req, resp) ==
    [W EXCEPT !.metrics.cache_hits = @ + 1,
              !.out = Out("retrieve", "cached", 0, req, resp, W.resps[resp].items, <<>>, W.now, W.out)]

\* retrieve after a failed cache lookup
CacheMiss(W, c, key) ==
    IF c.enable_caching THEN [GetFromCache(W, c, key) EXCEPT !.metrics.cache_misses = @ + 1] ELSE W

\* the Session read, after the Immediate read left the world W with results immediate
ReadSession(W, immediate, req) ==
    [hit |-> FALSE, W |-> AfterSession(W, req), immediate |-> immediate,
     session |-> RetrieveFromSession(W, req)]

\* the Immediate and Session reads of retrieve
ReadTiers(W, c, req) ==
    ReadSession(AfterImmediate(W, c, req), RetrieveFromImmediate(W, c, req), req)

\* retrieve, up to the long-term branch: the cache lookup and the Immediate and
\* Session reads.  Yields [hit, W, immediate, session].
RetrieveTiers(W, c, req) ==
    IF c.enable_caching /\ CacheHit(W, c, CacheKey(req))
    THEN [hit |-> TRUE,
          W |-> ServeCached(GetFromCache(W, c, CacheKey(req)), req,
                            W.cache[CacheIndex(W.cache, CacheKey(req))].resp),
          immediate |-> <<>>, session |-> <<>>]
    ELSE ReadTiers(CacheMiss(W, c, CacheKey(req)), c, req)

\* the ContextResponse retrieve builds
Response(req, items, counts) ==
    [items |-> items, query |-> req.query, strategy |-> req.strategy,
     total_retrieved |-> counts.immediate + counts.session + counts.long_term,
     immediate_count |-> counts.immediate, session_count |-> counts.session,
     long_term_count |-> counts.long_term, cache_hit |-> FALSE]

\* a return of the new response object that leaves out metrics.record_retrieval
RetrieveReturnUncounted(W, c, req, all_items, r) ==
    [W EXCEPT !.cache = IF c.enable_caching THEN AddToCache(W.cache, CacheKey(req), r, W.now) ELSE @,
              !.out = Out("retrieve", "ok", 0, req, r, W.resps[r].items, all_items, W.now, W.out)]

\* retrieve returning the new response object r: cache insertion, metrics
RetrieveReturn(W, c, req, all_items, r) ==
    [W EXCEPT !.cache = IF c.enable_caching THEN AddToCache(W.cache, CacheKey(req), r, W.now) ELSE @,
              !.metrics.total_retrievals = @ + 1,
              !.out = Out("retrieve", "ok", 0, req, r, W.resps[r].items, all_items, W.now, W.out)]

\* retrieve from the assembly on, with the merged scored candidates all_items
RetrieveRespond(W, c, req, all_items, counts) ==
    RetrieveReturn(
        [W EXCEPT !.resps = Append(W.resps,
                                Response(req, AssembleContext(all_items, W.heap, req), counts))],
        c, req, all_items, Len(W.resps) + 1)

\* retrieve, after the long-term branch: assembly, response, cache insertion, metrics
RetrieveFinish(W, c, req, immediate, session, long_term) ==
    RetrieveRespond(W, c, req,
                    Scored(immediate, W.heap, req.query, LAYER_IMMEDIATE, W.now)
                    \o Scored(session, W.heap, req.query, LAYER_SESSION, W.now)
                    \o Scored(long_term, W.heap, req.query, LAYER_LONG_TERM, W.now),
                    [immediate |-> Len(immediate), session |-> Len(session),
                     long_term |-> Len(long_term)])

\* retrieve left by an exception of the long-term backend
RetrieveRaised(W, req) ==
    [W EXCEPT !.out = Out("retrieve", "raised", 0, req, 0, <<>>, <<>>, W.now, W.out)]

\* retrieve from its LongTerm branch on; r = [hit, W, immediate, session] is
\* what RetrieveTiers left
RetrieveLongTerm(r, c, req, lt_fault) ==
    IF r.hit THEN r.W
    ELSE IF ~ReadsLongTerm(c, req)
    THEN RetrieveFinish(r.W, c, req, r.immediate, r.session, <<>>)
    ELSE IF lt_fault THEN RetrieveRaised(r.W, req)
    ELSE RetrieveFinish(r.W, c, req, r.immediate, r.session, LongTermSearch(r.W, req))

\* ContextOrchestrator.retrieve run without suspension; lt_fault: the long-term
\* backend raises in search
RetrieveCall(W, c, req, lt_fault) ==
    RetrieveLongTerm(RetrieveTiers(W, c, req), c, req, lt_fault)

----------------------------------------------------------------------------
(* Initial state and the calls as actions *)

Config(size, ttl, sess_size, threshold, consolidation, async, caching, cache_ttl, long_term) ==
    [immediate_buffer_size |-> size, immediate_buffer_ttl |-> ttl,
     session_max_size |-> sess_size, session_consolidation_threshold |-> threshold,
     enable_consolidation |-> consolidation, enable_async |-> async,
     enable_caching |-> caching, cache_ttl |-> cache_ttl, enable_long_term |-> long_term]

\* a BM25Search after __init__
EmptyIndex ==
    [documents |-> <<>>, inverted_index |-> <<>>, doc_freqs |-> <<>>, idf_scores |-> <<>>,
     avg_doc_length |-> Frac(0, 1), total_docs |-> 0]

\* no chunk_text call, no fusion, no thread
NoCall == [status |-> "none"]

\* the retrieval package after construction, nothing called
InitRest ==
    /\ bm25 = EmptyIndex
    /\ chunker = NoCall
    /\ fusion = NoCall
    /\ threads = <<>>

\* the orchestrator and its tiers after construction, for a configuration drawn from configs
InitTiers(configs) ==
    /\ cfg \in configs
    /\ now = 0
    /\ heap = <<>>
    /\ buffer = <<>>
    /\ sess = <<>>
    /\ convIdx = EmptyIdx(Convs)
    /\ taskIdx = EmptyIdx(Tasks)
    /\ lt = <<>>
    /\ ltTasks = <<>>
    /\ cache = <<>>
    /\ resps = <<>>
    /\ metrics = ZeroMetrics
    /\ coros = <<>>
    /\ out = NoOut

\* the state after construction, for a configuration drawn from configs
InitWith(configs) == InitTiers(configs) /\ InitRest

\* the clock advances
Tick ==
    /\ now < MaxClock
    /\ now' = now + 1
    /\ UNCHANGED <<cfg, heap, buffer, sess, convIdx, taskIdx, lt, ltTasks, cache, resps, metrics, coros, out>>
    /\ UNCHANGED restVars

\* ContextOrchestrator.store, inputs drawn from the given sets
Store(contents, metas, hints, convs, faults, maxItems) ==
    \E content \in contents, meta \in metas, hint \in hints, conv \in convs, lt_fault \in faults :
        /\ Len(heap) < maxItems
        /\ Commit(StoreCall(World, cfg, content, meta, hint, conv, lt_fault))
        /\ UNCHANGED <<cfg, coros>>

\* ContextOrchestrator.retrieve, inputs drawn from the given sets
Retrieve(requests, faults, maxCalls) ==
    \E req \in requests, lt_fault \in faults :
        /\ out.retrieves < maxCalls
        /\ Commit(RetrieveCall(World, cfg, req, lt_fault))
        /\ UNCHANGED <<cfg, coros>>

\* the event loop runs the oldest pending long_term_store.add_async task
RunLongTermTask ==
    /\ ltTasks # <<>>
    /\ lt' = IF InSeq(ltTasks[1], lt) THEN lt ELSE Append(lt, ltTasks[1])
    /\ ltTasks' = Tail(ltTasks)
    /\ UNCHANGED <<cfg, now, heap, buffer, sess, convIdx, taskIdx, cache, resps, metrics, coros, out>>
    /\ UNCHANGED restVars

NoMeta == Meta(Absent, Absent, Absent, Absent)

----------------------------------------------------------------------------
(* Spec: the orchestrator, calls run one after the other *)

SpecContents == { <<"a">>, <<"A">>, <<Space>>, <<"a", Space, "a", Space, "a", Space, "a", Space>> }
SpecMetas == { NoMeta, Meta("critical", Absent, Absent, Absent) }
\* the queries are the contents stored so far
StoredContents == { heap[i].content : i \in 1..Len(heap) }
SpecRequests ==
    { Request(q, n, t, TRUE, TRUE, FALSE, NoFilters, NoConv) :
        q \in StoredContents, n \in 1..2, t \in {NoTokens, 0, 1} }

Init == InitWith({ Config(2, 1, 2, 100, TRUE, FALSE, TRUE, 1, TRUE) })

Next ==
    \/ Store(SpecContents, SpecMetas, {NoHint}, {NoConv}, {FALSE}, MaxItems)
    \/ Retrieve(SpecRequests, {FALSE}, MaxCalls)
    \/ Tick

Spec == Init /\ [][Next]_vars

----------------------------------------------------------------------------
(* SpecRoute: store over every combination of the reserved metadata values *)

RouteItems == 1

RouteMetas ==
    { Meta(i, t, p, Absent) :
        i \in {Absent, "critical", "high", "normal", "low", "minimal"},
        t \in {Absent, "task", "decision", "preference", "fact", "knowledge", "event"},
        p \in {Absent, "permanent", "session"} }

InitRoute ==
    InitWith({ Config(2, 1, 2, 100, TRUE, a, TRUE, 1, l) : a \in BOOLEAN, l \in BOOLEAN })

NextRoute ==
    \/ Store({<<"a">>}, RouteMetas, {NoHint}, {NoConv}, {FALSE}, RouteItems)
    \/ RunLongTermTask

SpecRoute == InitRoute /\ [][NextRoute]_vars

----------------------------------------------------------------------------
(* SpecHint: store with a layer hint, LongTerm enabled or not *)

HintItems == 2

Hints == {LAYER_IMMEDIATE, LAYER_SESSION, LAYER_LONG_TERM}

HintMetas == { NoMeta, Meta("critical", "fact", Absent, Absent) }

NextHint ==
    \/ Store({<<"a">>}, HintMetas, Hints, {NoConv}, {FALSE}, HintItems)
    \/ RunLongTermTask

SpecHint == InitRoute /\ [][NextHint]_vars

----------------------------------------------------------------------------
(* SpecCache: retrieves of ever new requests that fill the response cache  *)
(* past its limit, with a repeat of the first request in between           *)

CacheCalls == 103
CacheHits == 1
CacheClock == 1

\* the request number n: requests of different max_results have different keys
CacheRequest(n) == Request(<<>>, n, NoTokens, TRUE, FALSE, FALSE, NoFilters, NoConv)

\* a request not made before, or the first request again
CacheRequests ==
    { CacheRequest(n) : n \in {metrics.cache_misses + 1}
                             \cup (IF metrics.cache_hits < CacheHits THEN {1} ELSE {}) }

InitCache == InitWith({ Config(2, 0, 2, 100, TRUE, FALSE, TRUE, 2, FALSE) })

TickCache == now < CacheClock /\ Tick

NextCache ==
    \/ Retrieve(CacheRequests, {FALSE}, CacheCalls)
    \/ TickCache

SpecCache == InitCache /\ [][NextCache]_vars

----------------------------------------------------------------------------
(* SpecTokens: retrieves under a token budget, of contents whose lengths   *)
(* are not multiples of 4, with caching disabled                           *)

TokItems == 3
TokCalls == 2
TokClock == 1
TokBudget == 2

TokContents == { <<"a", " ", "a", " ", "a", " ", "a">>, <<"a", " ", "a">>, <<"a", "a", "a", "a">> }
TokRequests ==
    { Request(<<>>, 10, T, TRUE, s, FALSE, NoFilters, NoConv) : T \in 1..TokBudget, s \in BOOLEAN }

InitTokens == InitWith({ Config(3, 1, 2, 100, TRUE, FALSE, FALSE, 1, FALSE) })

TickTokens == now < TokClock /\ Tick

NextTokens ==
    \/ Store(TokContents, {NoMeta, Meta("high", Absent, Absent, Absent)}, {NoHint}, {NoConv}, {FALSE}, TokItems)
    \/ Retrieve(TokRequests, {FALSE}, TokCalls)
    \/ TickTokens

SpecTokens == InitTokens /\ [][NextTokens]_vars

----------------------------------------------------------------------------
(* SpecRecall: stores into an Immediate tier of capacity 2, then recency reads *)

RecallItems == 3
RecallCalls == 2
RecallClock == 1

RecallContents == { <<"a">>, <<"A">>, <<"b">>, <<"c">> }
RecallMetas == { NoMeta, Meta("critical", "fact", Absent, Absent) }
RecallRequests ==
    { Request(<<>>, n, NoTokens, TRUE, FALSE, l, NoFilters, NoConv) : n \in 2..3, l \in BOOLEAN }

InitRecall == InitWith({ Config(2, 1, 2, 100, TRUE, FALSE, TRUE, 1, TRUE) })

TickRecall == now < RecallClock /\ Tick

NextRecall ==
    \/ Store(RecallContents, RecallMetas, {NoHint}, {NoConv}, {FALSE}, RecallItems)
    \/ Retrieve(RecallRequests, {FALSE}, RecallCalls)
    \/ TickRecall

SpecRecall == InitRecall /\ [][NextRecall]_vars

----------------------------------------------------------------------------
(* SpecBuf: the ImmediateContextBuffer on its own, items of any timestamp *)

BufItems == 3

\* ImmediateContextBuffer.add of a new item
BufAdd(convs, maxItems) ==
    \E conv \in convs, ts \in 0..now :
        /\ Len(heap) < maxItems
        /\ LET id == Len(heap) + 1
               W0 == [World EXCEPT !.heap = Append(heap, ContextItem(<<"a">>, NoMeta, conv, ts))]
               W1 == BufferAdd(W0, cfg, id)
           IN Commit([W1 EXCEPT !.out = Out("add", "ok", id, NoRequest, 0, <<>>, <<>>, now, out)])
        /\ UNCHANGED <<cfg, coros>>

\* ImmediateContextBuffer.get_recent
BufGetRecent(counts, convs, maxCalls) ==
    \E max_items \in counts, conv \in convs :
        /\ out.retrieves < maxCalls
        /\ LET purged == RemoveExpired(buffer, heap, cfg.immediate_buffer_ttl, now)
               items == GetRecentItems(purged, heap, max_items, conv)
           IN Commit([World EXCEPT
                  !.buffer = purged,
                  !.heap = MarkAccessed(heap, items, now),
                  !.out = Out("get_recent", "ok", 0, NoRequest, 0, items, <<>>, now, out)])
        /\ UNCHANGED <<cfg, coros>>

\* ImmediateContextBuffer.get_all
BufGetAll ==
    /\ LET purged == RemoveExpired(buffer, heap, cfg.immediate_buffer_ttl, now)
       IN Commit([World EXCEPT
              !.buffer = purged,
              !.out = Out("get_all", "ok", 0, NoRequest, 0, Reverse(purged), <<>>, now, out)])
    /\ UNCHANGED <<cfg, coros>>

\* ImmediateContextBuffer.clear
BufClear(convs) ==
    \E conv \in convs :
        /\ Commit([World EXCEPT
               !.buffer = BufferCleared(buffer, heap, conv),
               !.out = Out("clear", "ok", 0, NoRequest, 0, <<>>, <<>>, now, out)])
        /\ UNCHANGED <<cfg, coros>>

InitBuf ==
    InitWith({ Config(size, ttl, 2, 100, TRUE, FALSE, TRUE, 1, TRUE) : size \in 1..2, ttl \in 0..1 })

NextBuf ==
    \/ BufAdd({NoConv, "c1"}, BufItems)
    \/ BufGetRecent(0..1, {NoConv, "c1"}, MaxCalls)
    \/ BufGetAll
    \/ BufClear({NoConv, "c1"})
    \/ Tick

SpecBuf == InitBuf /\ [][NextBuf]_vars

----------------------------------------------------------------------------
(* SpecSess: the SessionMemory on its own *)

SessItems == 7
SessClock == 1
SessCalls == 1

\* SessionMemory.add of a new item; a raising add leaves the store as it was
SessAdd(inputs, maxItems) ==
    \E conv \in Convs \cup {NoConv}, meta \in SpecMetas :
        /\ <<conv, meta>> \in inputs
        /\ Len(heap) < maxItems
        /\ LET id == Len(heap) + 1
               W0 == [World EXCEPT !.heap = Append(heap, ContextItem(<<"a">>, meta, conv, now))]
           IN IF SessionAddRaises(W0, cfg, id)
              THEN Commit([W0 EXCEPT !.out = Out("add", "raised", id, NoRequest, 0, <<>>, <<>>, now, out)])
              ELSE Commit([SessionAddW(W0, cfg, id) EXCEPT
                              !.out = Out("add", "ok", id, NoRequest, 0, <<>>, <<>>, now, out)])
        /\ UNCHANGED <<cfg, coros>>

\* SessionMemory.search
SessSearch(queries, counts, convs, maxCalls) ==
    \E query \in queries, max_results \in counts, conv \in convs :
        /\ out.retrieves < maxCalls
        /\ Commit([World EXCEPT
               !.heap = SearchHeap(SessionState, heap, query, max_results, NoFilters, conv, Absent, now),
               !.out = Out("search", "ok", 0, NoRequest, 0,
                           SearchResults(SessionState, heap, query, max_results, NoFilters, conv, Absent),
                           <<>>, now, out)])
        /\ UNCHANGED <<cfg, coros>>

InitSess ==
    InitWith({ Config(2, 1, 5, 5, TRUE, FALSE, TRUE, 1, TRUE),
               Config(2, 1, 5, 5, FALSE, FALSE, TRUE, 1, TRUE),
               Config(2, 1, 1, 1, TRUE, FALSE, TRUE, 1, TRUE) })

SessInputs == { <<"c1", NoMeta>>, <<"c1", Meta("critical", Absent, Absent, Absent)>>, <<NoConv, NoMeta>> }

TickSess == now < SessClock /\ Tick

NextSess ==
    \/ SessAdd(SessInputs, SessItems)
    \/ SessSearch({<<>>}, {1}, {NoConv}, SessCalls)
    \/ TickSess

SpecSess == InitSess /\ [][NextSess]_vars

----------------------------------------------------------------------------
(* SpecEvict: a SessionMemory of max_size 2 called directly, with items    *)
(* the caller built (any timestamp up to now) and re-adds of a known id    *)

EvictItems == 3
EvictClock == 1
EvictCalls == 1

\* the world after SessionMemory.add of the object W.heap[id], observed as op
SessAddOutcome(W, c, id, op) ==
    IF SessionAddRaises(W, c, id)
    THEN [W EXCEPT !.out = Out(op, "raised", id, NoRequest, 0, <<>>, <<>>, W.now, W.out)]
    ELSE [SessionAddW(W, c, id) EXCEPT
             !.out = Out(op, "ok", id, NoRequest, 0, <<>>, <<>>, W.now, W.out)]

\* SessionMemory.add of a new item that the caller built with timestamp ts
SessAddAt(metas, convs, maxItems) ==
    \E meta \in metas, conv \in convs, ts \in 0..now :
        /\ Len(heap) < maxItems
        /\ Commit(SessAddOutcome(
               [World EXCEPT !.heap = Append(heap, ContextItem(<<"a">>, meta, conv, ts))],
               cfg, Len(heap) + 1, "add"))
        /\ UNCHANGED <<cfg, coros>>

\* SessionMemory.add of a new object that carries the id of a resident item
SessReAdd(contents, metas, convs) ==
    \E id \in Range(sess), content \in contents, meta \in metas, conv \in convs :
        /\ heap[id].content # content
        /\ Commit(SessAddOutcome(
               [World EXCEPT !.heap[id] = ContextItem(content, meta, conv, now)],
               cfg, id, "readd"))
        /\ UNCHANGED <<cfg, coros>>

EvictMetas == { Meta("minimal", Absent, Absent, Absent), NoMeta }

InitEvict == InitWith({ Config(2, 1, 2, 100, TRUE, FALSE, TRUE, 1, TRUE) })

TickEvict == now < EvictClock /\ Tick

NextEvict ==
    \/ SessAddAt(EvictMetas, {NoConv, "c1"}, EvictItems)
    \/ SessReAdd({<<"b">>}, EvictMetas, {NoConv, "c1"})
    \/ SessSearch({<<>>}, {1}, {NoConv}, EvictCalls)
    \/ TickEvict

SpecEvict == InitEvict /\ [][NextEvict]_vars

----------------------------------------------------------------------------
(* SpecCons: a SessionMemory called directly that consolidates from two    *)
(* residents on                                                            *)

ConsItems == 8
ConsClock == 1

\* the world with the session state S
WithSession(W, S) == [W EXCEPT !.sess = S.sess, !.convIdx = S.convIdx, !.taskIdx = S.taskIdx]

\* SessionMemory.add of a new item that the caller built with timestamp ts,
\* the conversation and metadata drawn as pairs
SessAddOf(inputs, maxItems) ==
    \E input \in inputs, ts \in 0..now :
        /\ Len(heap) < maxItems
        /\ Commit(SessAddOutcome(
               [World EXCEPT !.heap = Append(heap, ContextItem(<<"a">>, input[2], input[1], ts))],
               cfg, Len(heap) + 1, "add"))
        /\ UNCHANGED <<cfg, coros>>

\* SessionMemory.clear
SessClear ==
    /\ Commit([WithSession(World, [sess |-> <<>>, convIdx |-> EmptyIdx(Convs), taskIdx |-> EmptyIdx(Tasks)])
                  EXCEPT !.out = Out("clear", "ok", 0, NoRequest, 0, <<>>, <<>>, now, out)])
    /\ UNCHANGED <<cfg, coros>>

\* SessionMemory.clear_conversation
SessClearConversation(convs) ==
    \E conv \in convs :
        /\ Commit([WithSession(World, ClearConversation(SessionState, conv))
                      EXCEPT !.out = Out("clear_conversation", "ok", 0, NoRequest, 0, <<>>, <<>>, now, out)])
        /\ UNCHANGED <<cfg, coros>>

\* SessionMemory.clear_task
SessClearTask(tasks) ==
    \E task \in tasks :
        /\ Commit([WithSession(World, ClearTask(SessionState, heap, task))
                      EXCEPT !.out = Out("clear_task", "ok", 0, NoRequest, 0, <<>>, <<>>, now, out)])
        /\ UNCHANGED <<cfg, coros>>

ConsInputs == { <<"c1", NoMeta>>, <<NoConv, NoMeta>> }

InitCons == InitWith({ Config(2, 1, 6, 2, TRUE, FALSE, TRUE, 1, TRUE) })

TickCons == now < ConsClock /\ Tick

NextCons ==
    \/ SessAddOf(ConsInputs, ConsItems)
    \/ TickCons

SpecCons == InitCons /\ [][NextCons]_vars

----------------------------------------------------------------------------
(* SpecIdx: the same SessionMemory with its clears, the clock standing     *)

IdxItems == 7

IdxInputs ==
    { <<"c1", NoMeta>>, <<"c1", Meta(Absent, Absent, Absent, "t1")>>,
      <<NoConv, Meta(Absent, Absent, Absent, "t1")>> }

NextIdx ==
    \/ SessAddOf(IdxInputs, IdxItems)
    \/ SessClear
    \/ SessClearConversation({"c1"})
    \/ SessClearTask({"t1"})

SpecIdx == InitCons /\ [][NextIdx]_vars

----------------------------------------------------------------------------
(* SpecMerge: a SessionMemory called directly that consolidates from five  *)
(* residents on, so that the one conversation gathers members between two *)
(* consolidations                                                          *)

MergeItems == 11
MergeClock == 1

InitMerge == InitWith({ Config(2, 1, 6, 5, TRUE, FALSE, TRUE, 1, TRUE) })

TickMerge == now < MergeClock /\ Tick

NextMerge ==
    \/ SessAddOf({ <<"c1", NoMeta>> }, MergeItems)
    \/ TickMerge

SpecMerge == InitMerge /\ [][NextMerge]_vars

----------------------------------------------------------------------------
(* SpecMean: a SessionMemory called directly that consolidates members of  *)
(* mixed importance                                                        *)

MeanItems == 7

MeanInputs == { <<"c1", NoMeta>>, <<"c1", Meta("high", Absent, Absent, Absent)>>,
                <<"c1", Meta("minimal", Absent, Absent, Absent)>> }

NextMean == SessAddOf(MeanInputs, MeanItems)

SpecMean == InitCons /\ [][NextMean]_vars

----------------------------------------------------------------------------
(* SpecFault: the calls with a long-term backend that may raise, and the   *)
(* HybridRetriever with absent or raising search backends                  *)

Strategies == {"hybrid", "semantic", "keyword", "graph"}

\* HybridRetriever._semantic_retrieve: [] without a vector store, else whatever
\* SemanticSearch.search does
SemanticRetrieveRaises(has_vector, sem_fault) == has_vector /\ sem_fault

\* HybridRetriever._graph_retrieve: [] without a graph store, else whatever
\* GraphSearch.search does
GraphRetrieveRaises(has_graph, graph_fault) == has_graph /\ graph_fault

\* does HybridRetriever.retrieve leave by an exception of a backend
HybridRetrieveRaises(strategy, has_vector, has_graph, sem_fault, graph_fault) ==
    CASE strategy = "hybrid" -> \/ SemanticRetrieveRaises(has_vector, sem_fault)
                                \/ GraphRetrieveRaises(has_graph, graph_fault)
      [] strategy = "semantic" -> SemanticRetrieveRaises(has_vector, sem_fault)
      [] strategy = "graph" -> GraphRetrieveRaises(has_graph, graph_fault)
      [] OTHER -> FALSE

\* HybridRetriever.retrieve over an empty index, on a retriever built with or
\* without each store; the request records the strategy
HybridRetrieve ==
    \E strategy \in Strategies, has_vector \in BOOLEAN, has_graph \in BOOLEAN,
       sem_fault \in BOOLEAN, graph_fault \in BOOLEAN :
        /\ out' = Out("hybrid_retrieve",
                      IF HybridRetrieveRaises(strategy, has_vector, has_graph, sem_fault, graph_fault)
                      THEN "raised" ELSE "ok",
                      0, [NoRequest EXCEPT !.strategy = strategy],
                      0, <<>>, <<>>, now, out)
        /\ UNCHANGED <<cfg, now, heap, buffer, sess, convIdx, taskIdx, lt, ltTasks, cache, resps,
                       metrics, coros>>
        /\ UNCHANGED restVars

FaultMetas == { NoMeta, Meta(Absent, "fact", Absent, Absent) }

FaultRequests ==
    { Request(<<>>, 2, NoTokens, TRUE, TRUE, l, NoFilters, NoConv) : l \in BOOLEAN }

InitFault ==
    InitWith({ Config(2, 1, 2, 100, TRUE, a, TRUE, 1, l) : a \in BOOLEAN, l \in BOOLEAN })

NextFault ==
    \/ Store({<<"a">>}, FaultMetas, {NoHint}, {NoConv}, BOOLEAN, MaxItems)
    \/ Retrieve(FaultRequests, BOOLEAN, MaxCalls)
    \/ RunLongTermTask
    \/ HybridRetrieve

SpecFault == InitFault /\ [][NextFault]_vars

----------------------------------------------------------------------------
(* SpecAsync: store and retrieve as coroutines that may suspend at their   *)
(* awaits of the long-term store and interleave                            *)

StoreFrame(id, layers) ==
    [kind |-> "store", id |-> id, layers |-> layers, req |-> NoRequest,
     immediate |-> <<>>, session |-> <<>>]

RetrieveFrame(req, immediate, session) ==
    [kind |-> "retrieve", id |-> 0, layers |-> <<>>, req |-> req,
     immediate |-> immediate, session |-> session]

Without(s, k) == [i \in 1..(Len(s) - 1) |-> IF i < k THEN s[i] ELSE s[i + 1]]

\* does store reach its await; r = [raised, W] is what StoreTiers left
StoreSuspends(r, c, layers) == ~r.raised /\ WritesLongTerm(layers, c) /\ ~c.enable_async

\* the world when store suspends or, without await, returns
StoreBegun(r, c, id, layers) ==
    IF StoreSuspends(r, c, layers) THEN r.W ELSE StoreLongTerm(r, c, id, layers, FALSE)

\* store runs up to `await self.long_term_store.add_async(item)`, or to its end
StoreBegin(contents, metas, maxItems) ==
    \E content \in contents, meta \in metas :
        /\ Len(heap) < maxItems
        /\ Commit(StoreBegun(StoreTiers(World, cfg, content, meta, NoHint, NoConv), cfg,
                             Len(heap) + 1, TargetLayers(meta, NoHint, cfg)))
        /\ coros' = IF StoreSuspends(StoreTiers(World, cfg, content, meta, NoHint, NoConv), cfg,
                                     TargetLayers(meta, NoHint, cfg))
                    THEN Append(coros, StoreFrame(Len(heap) + 1, TargetLayers(meta, NoHint, cfg)))
                    ELSE coros
        /\ UNCHANGED cfg

\* a suspended store resumes: the long-term write, metrics, invalidation, return
StoreResume ==
    \E k \in 1..Len(coros) :
        /\ coros[k].kind = "store"
        /\ Commit(StoreFinish(LongTermAdd(World, coros[k].id), cfg, coros[k].id, coros[k].layers))
        /\ coros' = Without(coros, k)
        /\ UNCHANGED cfg

RetrievesBegun == out.retrieves + Cardinality({ k \in 1..Len(coros) : coros[k].kind = "retrieve" })

\* does retrieve reach its await; r is what RetrieveTiers left
RetrieveSuspends(r, c, req) == ~r.hit /\ ReadsLongTerm(c, req)

\* the world when retrieve suspends or, without await, returns
RetrieveBegun(r, c, req) ==
    IF RetrieveSuspends(r, c, req) THEN r.W ELSE RetrieveLongTerm(r, c, req, FALSE)

\* the frame of a retrieve suspended with the tier results of r
RetrieveSuspended(r, req) == RetrieveFrame(req, r.immediate, r.session)

\* retrieve runs up to `await self.long_term_store.search(...)`, or to its end
RetrieveBegin(requests, maxCalls) ==
    \E req \in requests :
        /\ RetrievesBegun < maxCalls
        /\ Commit(RetrieveBegun(RetrieveTiers(World, cfg, req), cfg, req))
        /\ coros' = IF RetrieveSuspends(RetrieveTiers(World, cfg, req), cfg, req)
                    THEN Append(coros, RetrieveSuspended(RetrieveTiers(World, cfg, req), req))
                    ELSE coros
        /\ UNCHANGED cfg

\* a suspended retrieve resumes: the long-term results, assembly, cache insertion
RetrieveResume ==
    \E k \in 1..Len(coros) :
        /\ coros[k].kind = "retrieve"
        /\ Commit(RetrieveFinish(World, cfg, coros[k].req, coros[k].immediate, coros[k].session,
                                 LongTermSearch(World, coros[k].req)))
        /\ coros' = Without(coros, k)
        /\ UNCHANGED cfg

AsyncCalls == 2
AsyncItems == 1
AsyncClock == 1

AsyncRequests ==
    { Request(<<>>, 2, NoTokens, TRUE, FALSE, l, NoFilters, NoConv) : l \in BOOLEAN }

InitAsync == InitWith({ Config(2, 0, 2, 100, TRUE, FALSE, TRUE, 0, TRUE) })

TickAsync == now < AsyncClock /\ Tick

NextAsync ==
    \/ StoreBegin({<<"a">>, <<"b">>}, FaultMetas, AsyncItems)
    \/ StoreResume
    \/ RetrieveBegin(AsyncRequests, AsyncCalls)
    \/ RetrieveResume
    \/ TickAsync

SpecAsync == InitAsync /\ [][NextAsync]_vars

----------------------------------------------------------------------------
(* BM25Search.  A dict is a function on its keys; document ids are strings. *)
(* An IDF value is kept as what it is: 0.0, the floor epsilon, or the log   *)
(* of a rational; the BM25 scores, sums of such logs, are not computed.     *)

DictPut(d, k, v) == [x \in (DOMAIN d) \cup {k} |-> IF x = k THEN v ELSE d[x]]

DictDel(d, k) == [x \in (DOMAIN d) \ {k} |-> d[x]]

\* dict.get(k, default)
DictGet(d, k, default) == IF k \in DOMAIN d THEN d[k] ELSE default

\* str.isalnum on the characters that occur
IsAlnum(c) == ~IsSpace(c) /\ c \notin {".", "!", "?", ",", "|", ":", "[", "]"}

MinTokenLength == 2

\* tokenize: the lowercased alphanumeric runs of at least min_length characters
RECURSIVE TokenizeFrom(_, _, _, _)
TokenizeFrom(text, i, current_token, tokens) ==
    LET flushed == IF Len(current_token) >= MinTokenLength
                   THEN Append(tokens, current_token) ELSE tokens
    IN IF i > Len(text) THEN flushed
       ELSE IF IsAlnum(text[i])
       THEN TokenizeFrom(text, i + 1, Append(current_token, text[i]), tokens)
       ELSE TokenizeFrom(text, i + 1, <<>>, flushed)

Tokenize(text) == TokenizeFrom(Lower(text), 1, <<>>, <<>>)

\* BM25Document.from_text
BM25Document(doc_id, content, metadata) ==
    [doc_id |-> doc_id, content |-> content, tokens |-> Tokenize(content),
     metadata |-> metadata, token_count |-> Len(Tokenize(content))]

RECURSIVE SumTokenCounts(_, _)
SumTokenCounts(documents, ids) ==
    IF ids = {} THEN 0
    ELSE LET d == CHOOSE x \in ids : TRUE
         IN documents[d].token_count + SumTokenCounts(documents, ids \ {d})

\* BM25Search._update_statistics
UpdateStatistics(B) ==
    [B EXCEPT !.total_docs = Cardinality(DOMAIN B.documents),
              !.avg_doc_length =
                  IF Cardinality(DOMAIN B.documents) > 0
                  THEN Frac(SumTokenCounts(B.documents, DOMAIN B.documents),
                            Cardinality(DOMAIN B.documents))
                  ELSE Frac(0, 1),
              !.idf_scores = <<>>]

\* BM25Search._remove_from_index: the id is discarded from the posting set of
\* each of the document's tokens; the test that follows the discard never
\* finds the id, so doc_freqs is not decremented; a token whose posting set
\* became empty loses both entries
RemoveFromIndex(B, doc_id) ==
    IF doc_id \notin DOMAIN B.documents THEN B
    ELSE LET toks == Range(B.documents[doc_id].tokens)
             discarded == [t \in DOMAIN B.inverted_index |->
                              IF t \in toks THEN B.inverted_index[t] \ {doc_id}
                              ELSE B.inverted_index[t]]
             kept == { t \in DOMAIN discarded : ~(t \in toks /\ discarded[t] = {}) }
         IN [B EXCEPT !.inverted_index = [t \in kept |-> discarded[t]],
                      !.doc_freqs = [t \in (DOMAIN B.doc_freqs) \cap
                                           { u \in DOMAIN B.doc_freqs : u \notin toks \/ u \in kept }
                                     |-> B.doc_freqs[t]]]

\* BM25Search.add_document
AddDocumentTo(B, doc_id, content, metadata) ==
    LET doc == BM25Document(doc_id, content, metadata)
        B1 == RemoveFromIndex(B, doc_id)
        toks == Range(doc.tokens)
    IN UpdateStatistics(
           [B1 EXCEPT !.documents = DictPut(B1.documents, doc_id, doc),
                      !.inverted_index =
                          [t \in (DOMAIN B1.inverted_index) \cup toks |->
                              IF t \in toks
                              THEN DictGet(B1.inverted_index, t, {}) \cup {doc_id}
                              ELSE B1.inverted_index[t]],
                      !.doc_freqs =
                          [t \in (DOMAIN B1.doc_freqs) \cup toks |->
                              IF t \in toks THEN DictGet(B1.doc_freqs, t, 0) + 1
                              ELSE B1.doc_freqs[t]]])

\* BM25Search.remove_document of an indexed document
RemoveDocumentFrom(B, doc_id) ==
    LET B1 == RemoveFromIndex(B, doc_id)
    IN UpdateStatistics([B1 EXCEPT !.documents = DictDel(B1.documents, doc_id)])

\* e, rounded up to three decimals, times 1000
EulerMilli == 2719

\* is log(x) >= epsilon, for the default epsilon 0.25: x^4 >= e
LogGeEpsilon(x) == x.num * x.num * x.num * x.num * 1000 >= EulerMilli * x.den * x.den * x.den * x.den

IdfZero == [kind |-> "zero", arg |-> Frac(0, 1)]
IdfEpsilon == [kind |-> "epsilon", arg |-> Frac(1, 4)]

\* BM25Search._get_idf without its cache: 0.0 for a token of no doc_freqs entry,
\* else max(log((N - df + 0.5) / (df + 0.5) + 1), epsilon)
CalculateIdf(B, token) ==
    LET doc_freq == DictGet(B.doc_freqs, token, 0)
        x == Frac((2 * B.total_docs - 2 * doc_freq + 1) + (2 * doc_freq + 1), 2 * doc_freq + 1)
    IN IF doc_freq = 0 THEN IdfZero
       ELSE IF LogGeEpsilon(x) THEN [kind |-> "log", arg |-> x]
       ELSE IdfEpsilon

\* the value BM25Search._get_idf returns
GetIdf(B, token) ==
    IF token \in DOMAIN B.idf_scores THEN B.idf_scores[token] ELSE CalculateIdf(B, token)

\* the index after BM25Search._get_idf: a computed value that is not 0.0 is cached
AfterGetIdf(B, token) ==
    IF token \in DOMAIN B.idf_scores \/ DictGet(B.doc_freqs, token, 0) = 0 THEN B
    ELSE [B EXCEPT !.idf_scores = DictPut(B.idf_scores, token, CalculateIdf(B, token))]

\* BM25Search._matches_filters: every filter value is compared with !=
MatchesFilters(B, doc_id, filters) ==
    /\ doc_id \in DOMAIN B.documents
    /\ \A i \in 1..Len(filters) :
          LET f == filters[i]
              v == MetaField(B.documents[doc_id].metadata, f.key)
          IN /\ v # Absent
             /\ ~f.is_list
             /\ <<v>> = f.vals

\* BM25Search._calculate_scores: the documents that hold a query token
CandidateDocs(B, query_tokens) ==
    UNION { DictGet(B.inverted_index, query_tokens[i], {}) : i \in 1..Len(query_tokens) }

\* BM25Search.search: the ids of the documents it scores and keeps (their
\* order and the cut at max_results depend on the scores)
SearchMatches(B, query, filters) ==
    IF Tokenize(query) = <<>> THEN {}
    ELSE { d \in CandidateDocs(B, Tokenize(query)) :
              filters = NoFilters \/ MatchesFilters(B, d, filters) }

RECURSIVE CacheIdfs(_, _)
CacheIdfs(B, toks) ==
    IF toks = {} THEN B
    ELSE LET t == CHOOSE x \in toks : TRUE
         IN CacheIdfs(AfterGetIdf(B, t), toks \ {t})

\* the index after BM25Search.search: _get_idf ran for every query token that
\* a candidate document holds
AfterSearch(B, query) ==
    CacheIdfs(B, { t \in Range(Tokenize(query)) :
                      \E d \in CandidateDocs(B, Tokenize(query)) : t \in Range(B.documents[d].tokens) })

\* the tiers, the configuration and the coroutines, which the retrieval package leaves alone
tierVars == <<cfg, now, buffer, sess, convIdx, taskIdx, lt, ltTasks, cache, resps, metrics, coros>>

\* doc_freqs, which re-adding a document lets grow without limit, is still small
MaxDocFreq == 4

DocFreqsBelow(n) == \A t \in DOMAIN bm25.doc_freqs : bm25.doc_freqs[t] < n

(* SpecFilter: one SessionMemory and one BM25Search receive items and        *)
(* documents of the same metadata, and are searched with the same filters.  *)
FilterItems == 2
FilterCalls == 2

FilterDocIds == {"d1", "d2"}

FilterMetas == { NoMeta, Meta(Absent, "fact", Absent, Absent), Meta(Absent, "note", Absent, Absent) }

\* filters = {} / {'type': 'fact'} / {'type': ['fact', 'task']} / {'task_id': 't1'}
FilterMaps ==
    { NoFilters,
      << [key |-> "type", is_list |-> FALSE, vals |-> <<"fact">>] >>,
      << [key |-> "type", is_list |-> TRUE, vals |-> <<"fact", "task">>] >>,
      << [key |-> "task_id", is_list |-> FALSE, vals |-> <<"t1">>] >> }

\* bm25.add_document(doc_id, 'aa', metadata)
FilterAddDocument ==
    \E doc_id \in FilterDocIds, meta \in FilterMetas :
        /\ DocFreqsBelow(MaxDocFreq)
        /\ bm25' = AddDocumentTo(bm25, doc_id, <<"a", "a">>, meta)
        /\ out' = [op |-> "add_document", status |-> "ok", id |-> doc_id,
                   retrieves |-> out.retrieves, last_store |-> out.last_store]
        /\ UNCHANGED <<tierVars, heap, chunker, fusion, threads>>

\* session.search('a', filters=filters) and bm25.search('aa', filters=filters),
\* each next to the same search without filters; max_results cuts nothing off
FilterSearch ==
    \E filters \in FilterMaps :
        /\ out.retrieves < FilterCalls
        /\ heap' = SearchHeap(SessionState, heap, <<"a">>, FilterItems, filters, NoConv, Absent, now)
        /\ bm25' = AfterSearch(bm25, <<"a", "a">>)
        /\ out' = [op |-> "filter_search", status |-> "ok", id |-> 0, filters |-> filters,
                   session_all |-> Range(SearchResults(SessionState, heap, <<"a">>, FilterItems,
                                                       NoFilters, NoConv, Absent)),
                   session_ids |-> Range(SearchResults(SessionState, heap, <<"a">>, FilterItems,
                                                       filters, NoConv, Absent)),
                   bm25_all |-> SearchMatches(bm25, <<"a", "a">>, NoFilters),
                   bm25_ids |-> SearchMatches(bm25, <<"a", "a">>, filters),
                   retrieves |-> out.retrieves + 1, last_store |-> out.last_store]
        /\ UNCHANGED <<tierVars, chunker, fusion, threads>>

InitFilter == InitWith({ Config(2, 1, 5, 5, FALSE, FALSE, TRUE, 1, TRUE) })

NextFilter ==
    \/ SessAddOf({ <<NoConv, m>> : m \in FilterMetas }, FilterItems)
    \/ FilterAddDocument
    \/ FilterSearch

SpecFilter == InitFilter /\ [][NextFilter]_vars

(* SpecBm25: one BM25Search under add_document, remove_document, search and *)
(* _get_idf, for tokens of the documents and for a token of no document.    *)
Bm25DocIds == {"d1", "d2"}

\* 'aa', 'aa bb', 'bb'
Bm25Contents == { <<"a", "a">>, <<"a", "a", " ", "b", "b">>, <<"b", "b">> }

\* 'aa', 'bb', 'zz'
Bm25Tokens == { <<"a", "a">>, <<"b", "b">>, <<"z", "z">> }

Bm25Out(op, id, token, idf, ids) ==
    [op |-> op, status |-> "ok", id |-> id, token |-> token, idf |-> idf, ids |-> ids,
     retrieves |-> out.retrieves, last_store |-> out.last_store]

\* bm25.add_document(doc_id, content)
AddDocument ==
    \E doc_id \in Bm25DocIds, content \in Bm25Contents :
        /\ DocFreqsBelow(MaxDocFreq)
        /\ bm25' = AddDocumentTo(bm25, doc_id, content, NoMeta)
        /\ out' = Bm25Out("add_document", doc_id, <<>>, IdfZero, {})
        /\ UNCHANGED <<tierVars, heap, chunker, fusion, threads>>

\* bm25.remove_document(doc_id): False for a document that is not indexed
RemoveDocument ==
    \E doc_id \in Bm25DocIds :
        /\ bm25' = IF doc_id \in DOMAIN bm25.documents THEN RemoveDocumentFrom(bm25, doc_id) ELSE bm25
        /\ out' = [Bm25Out("remove_document", doc_id, <<>>, IdfZero, {}) EXCEPT
                      !.status = IF doc_id \in DOMAIN bm25.documents THEN "ok" ELSE "not_found"]
        /\ UNCHANGED <<tierVars, heap, chunker, fusion, threads>>

\* bm25._get_idf(token)
GetIdfOf ==
    \E token \in Bm25Tokens :
        /\ bm25' = AfterGetIdf(bm25, token)
        /\ out' = Bm25Out("get_idf", 0, token, GetIdf(bm25, token), {})
        /\ UNCHANGED <<tierVars, heap, chunker, fusion, threads>>

\* bm25.search(token)
SearchToken ==
    \E token \in Bm25Tokens :
        /\ bm25' = AfterSearch(bm25, token)
        /\ out' = Bm25Out("bm25_search", 0, token, IdfZero, SearchMatches(bm25, token, NoFilters))
        /\ UNCHANGED <<tierVars, heap, chunker, fusion, threads>>

NextBm25 == AddDocument \/ RemoveDocument \/ GetIdfOf \/ SearchToken

SpecBm25 == InitFilter /\ [][NextBm25]_vars

----------------------------------------------------------------------------
(* AdaptiveChunker.  Positions are Python's, counted from 0; a negative    *)
(* index counts from the end of the text, and one below -len(text) raises. *)

\* text[pos], or "IndexError"
TextAt(text, pos) ==
    IF 0 <= pos /\ pos < Len(text) THEN text[pos + 1]
    ELSE IF pos < 0 /\ pos >= 0 - Len(text) THEN text[Len(text) + pos + 1]
    ELSE "IndexError"

\* a slice bound, as Python clamps it
SliceBound(text, pos) ==
    IF pos < 0 THEN (IF Len(text) + pos < 0 THEN 0 ELSE Len(text) + pos)
    ELSE IF pos > Len(text) THEN Len(text) ELSE pos

\* text[a:b]
Slice(text, a, b) == SubSeq(text, SliceBound(text, a) + 1, SliceBound(text, b))

IsPunct(c) == c \in {".", "!", "?"}

\* the end of the run of punctuation / of whitespace that starts at pos
RECURSIVE PunctRunEnd(_, _)
PunctRunEnd(text, pos) ==
    IF pos < Len(text) /\ IsPunct(text[pos + 1]) THEN PunctRunEnd(text, pos + 1) ELSE pos

RECURSIVE SpaceRunEnd(_, _)
SpaceRunEnd(text, pos) ==
    IF pos < Len(text) /\ IsSpace(text[pos + 1]) THEN SpaceRunEnd(text, pos + 1) ELSE pos

\* match.end() of the matches of [.!?]+\s+ from pos on
RECURSIVE SentenceEnds(_, _, _)
SentenceEnds(text, pos, ends) ==
    IF pos >= Len(text) THEN ends
    ELSE IF IsPunct(text[pos + 1])
    THEN LET j == PunctRunEnd(text, pos)
             k == SpaceRunEnd(text, j)
         IN IF k > j THEN SentenceEnds(text, k, Append(ends, k))
            ELSE SentenceEnds(text, j, ends)
    ELSE SentenceEnds(text, pos + 1, ends)

\* AdaptiveChunker._find_sentence_boundaries
FindSentenceBoundaries(text) == <<0>> \o SentenceEnds(text, 0, <<>>) \o <<Len(text)>>

\* match.end() of the matches of \n\s*\n from pos on: a newline, then the
\* whitespace up to the last newline of the run
RECURSIVE ParagraphEnds(_, _, _)
ParagraphEnds(text, pos, ends) ==
    IF pos >= Len(text) THEN ends
    ELSE IF text[pos + 1] = Newline
    THEN LET k == SpaceRunEnd(text, pos + 1)
             newlines == { p \in (pos + 1)..(k - 1) : text[p + 1] = Newline }
             last == CHOOSE p \in newlines : \A q \in newlines : q <= p
         IN IF newlines # {} THEN ParagraphEnds(text, last + 1, Append(ends, last + 1))
            ELSE ParagraphEnds(text, pos + 1, ends)
    ELSE ParagraphEnds(text, pos + 1, ends)

\* AdaptiveChunker._find_paragraph_boundaries
FindParagraphBoundaries(text) == <<0>> \o ParagraphEnds(text, 0, <<>>) \o <<Len(text)>>

Abs(n) == IF n < 0 THEN 0 - n ELSE n

\* None, where a position is expected
NonePos == -1

\* the binary search of _find_nearest; positions[mid] is positions[mid + 1] here
RECURSIVE NearestLoop(_, _, _, _, _, _)
NearestLoop(target, positions, max_distance, left, right, closest) ==
    IF left > right THEN closest
    ELSE LET mid == (left + right) \div 2
             pos == positions[mid + 1]
             distance == Abs(pos - target)
             closer == /\ (closest = NonePos \/ distance < Abs(closest - target))
                       /\ distance <= max_distance
             next == IF closer THEN pos ELSE closest
         IN IF pos < target
            THEN NearestLoop(target, positions, max_distance, mid + 1, right, next)
            ELSE NearestLoop(target, positions, max_distance, left, mid - 1, next)

\* AdaptiveChunker._find_nearest
FindNearest(target, positions, max_distance) ==
    IF positions = <<>> THEN NonePos
    ELSE NearestLoop(target, positions, max_distance, 0, Len(positions) - 1, NonePos)

\* in place of a position: text[pos] raised IndexError
IndexError == -1000000

\* the forward scan of _find_word_boundary: the position it stops at, or
\* IndexError
RECURSIVE ScanForSpace(_, _, _)
ScanForSpace(text, pos, max_pos) ==
    IF pos >= max_pos THEN pos
    ELSE IF TextAt(text, pos) = "IndexError" THEN IndexError
    ELSE IF IsSpace(TextAt(text, pos)) THEN pos
    ELSE ScanForSpace(text, pos + 1, max_pos)

\* AdaptiveChunker._find_word_boundary
FindWordBoundary(text, target_pos, max_pos) ==
    LET start == IF target_pos < max_pos - 1 THEN target_pos ELSE max_pos - 1
        stop == ScanForSpace(text, start, max_pos)
        pos == IF stop >= max_pos THEN target_pos ELSE stop
    IN IF stop = IndexError THEN IndexError
       ELSE IF pos < max_pos THEN pos ELSE max_pos

ParagraphDistance == 100
SentenceDistance == 150

\* AdaptiveChunker._find_optimal_boundary; a boundary at position 0 counts as
\* none found
FindOptimalBoundary(C, text, target_pos, sentence_positions, paragraph_positions, max_pos) ==
    LET target == IF target_pos < Len(text) THEN target_pos ELSE Len(text)
        maxp == IF max_pos < Len(text) THEN max_pos ELSE Len(text)
        nearest_para == FindNearest(target, paragraph_positions, ParagraphDistance)
        nearest_sent == FindNearest(target, sentence_positions, SentenceDistance)
    IN IF /\ nearest_para # NonePos /\ nearest_para # 0
          /\ Abs(nearest_para - target) <= ParagraphDistance
       THEN (IF nearest_para < maxp THEN nearest_para ELSE maxp)
       ELSE IF C.preserve_sentences /\ nearest_sent # NonePos /\ nearest_sent # 0
       THEN (IF nearest_sent < maxp THEN nearest_sent ELSE maxp)
       ELSE FindWordBoundary(text, target, maxp)

MaxOverlap == 200

\* AdaptiveChunker._calculate_adaptive_overlap
CalculateAdaptiveOverlap(C, chunk_start, chunk_end, sentence_positions) ==
    LET sentences_in_chunk ==
            Cardinality({ i \in 1..Len(sentence_positions) :
                             chunk_start <= sentence_positions[i] /\ sentence_positions[i] <= chunk_end })
        overlap == IF sentences_in_chunk <= 2 THEN C.base_overlap \div 2
                   ELSE IF sentences_in_chunk <= 5 THEN C.base_overlap
                   ELSE (3 * C.base_overlap) \div 2
        third == (chunk_end - chunk_start) \div 3
        max_overlap == IF third < MaxOverlap THEN third ELSE MaxOverlap
    IN IF overlap < max_overlap THEN overlap ELSE max_overlap

Flexibility == 200
MaxIterations == 10000

\* the end of the chunk that starts at current_pos, or IndexError
ChunkEnd(C, text, current_pos) ==
    LET target_end == current_pos + C.chunk_size
        found == FindOptimalBoundary(C, text, target_end, FindSentenceBoundaries(text),
                                     FindParagraphBoundaries(text),
                                     IF target_end + Flexibility < Len(text)
                                     THEN target_end + Flexibility ELSE Len(text))
        at_least == IF found - current_pos < C.min_chunk_size /\ found < Len(text)
                    THEN (IF current_pos + C.min_chunk_size < Len(text)
                          THEN current_pos + C.min_chunk_size ELSE Len(text))
                    ELSE found
    IN IF found = IndexError THEN IndexError
       ELSE IF at_least - current_pos > C.max_chunk_size THEN current_pos + C.max_chunk_size
       ELSE at_least

\* the overlap chunk_text takes after the chunk current_pos..chunk_end
Overlap(C, text, current_pos, chunk_end) ==
    IF C.adaptive_overlap
    THEN CalculateAdaptiveOverlap(C, current_pos, chunk_end, FindSentenceBoundaries(text))
    ELSE C.base_overlap

Chunk(text, chunk_index, current_pos, chunk_end, overlap) ==
    [chunk_index |-> chunk_index, content |-> Slice(text, current_pos, chunk_end),
     start_pos |-> current_pos, end_pos |-> chunk_end,
     overlap_before |-> IF chunk_index > 0 THEN overlap ELSE 0,
     overlap_after |-> IF chunk_end < Len(text) THEN overlap ELSE 0]

\* one pass of the while loop of chunk_text, from the frame K of the call
ChunkLoop(K) ==
    LET chunk_end == ChunkEnd(K.config, K.text, K.current_pos)
        overlap == Overlap(K.config, K.text, K.current_pos, chunk_end)
        next_pos == IF chunk_end - overlap >= chunk_end THEN chunk_end ELSE chunk_end - overlap
    IN IF chunk_end = IndexError THEN [K EXCEPT !.status = "raised"]
       ELSE [K EXCEPT
                !.chunks = Append(@, Chunk(K.text, K.chunk_index, K.current_pos, chunk_end, overlap)),
                !.current_pos = next_pos,
                !.chunk_index = @ + 1,
                !.hard_stop = K.chunk_index + 1 > MaxIterations,
                !.status = IF K.chunk_index + 1 > MaxIterations \/ next_pos >= Len(K.text)
                           THEN "returned" ELSE "walking"]

\* AdaptiveChunker.__init__
AdaptiveChunker(chunk_size, min_chunk_size, max_chunk_size, base_overlap, adaptive_overlap, preserve_sentences) ==
    [chunk_size |-> chunk_size, min_chunk_size |-> min_chunk_size,
     max_chunk_size |-> max_chunk_size, base_overlap |-> base_overlap,
     adaptive_overlap |-> adaptive_overlap, preserve_sentences |-> preserve_sentences]

\* the frame of chunk_text(text) when it enters the loop; '' returns [] at once
ChunkFrame(C, text) ==
    [config |-> C, text |-> text, current_pos |-> 0, chunk_index |-> 0, chunks |-> <<>>,
     hard_stop |-> FALSE, status |-> IF text = <<>> THEN "returned" ELSE "walking"]

(* SpecChunk: one AdaptiveChunker of a small configuration, and chunk_text *)
(* on short texts, one pass of its loop at a time.                         *)
MaxChunks == 5
MaxChunkSize == 3
MaxBaseOverlap == 2
MaxTextLen == 3

\* the configurations with 1 <= min_chunk_size <= chunk_size <= max_chunk_size
ChunkConfigs ==
    { C \in { AdaptiveChunker(chunk_size, min_chunk_size, max_chunk_size, base_overlap, adaptive,
                              preserve) :
                chunk_size \in 1..MaxChunkSize, min_chunk_size \in {1, 2},
                max_chunk_size \in {2, 4}, base_overlap \in 0..MaxBaseOverlap,
                adaptive \in BOOLEAN, preserve \in BOOLEAN } :
        C.min_chunk_size <= C.chunk_size /\ C.chunk_size <= C.max_chunk_size }

\* every text of 'a', ' ' and '.' up to MaxTextLen characters, and two longer
\* ones with a paragraph break and a sentence end
ChunkTexts ==
    UNION { [1..n -> {"a", Space, "."}] : n \in 0..MaxTextLen }
        \cup { <<"a", Newline, Newline, "a">>, <<"a", ".", Space, "a", "a">> }

InitChunk ==
    /\ InitTiers({ Config(2, 1, 5, 5, FALSE, FALSE, TRUE, 1, TRUE) })
    /\ bm25 = EmptyIndex
    /\ chunker \in { [config |-> C, status |-> "none"] : C \in ChunkConfigs }
    /\ fusion = NoCall
    /\ threads = <<>>

ChunkOut(K) ==
    [op |-> "chunk_text", status |-> K.status, retrieves |-> out.retrieves,
     last_store |-> out.last_store]

\* chunker.chunk_text(text), up to the loop
ChunkText ==
    \E text \in ChunkTexts :
        /\ chunker.status # "walking"
        /\ chunker' = ChunkFrame(chunker.config, text)
        /\ out' = ChunkOut(chunker')
        /\ UNCHANGED <<tierVars, heap, bm25, fusion, threads>>

\* one pass of the loop of chunk_text; a walk of MaxChunks chunks is not followed further
ChunkTextLoop ==
    /\ chunker.status = "walking"
    /\ chunker.chunk_index < MaxChunks
    /\ chunker' = ChunkLoop(chunker)
    /\ out' = ChunkOut(chunker')
    /\ UNCHANGED <<tierVars, heap, bm25, fusion, threads>>

NextChunk == ChunkText \/ ChunkTextLoop

SpecChunk == InitChunk /\ [][NextChunk]_vars

----------------------------------------------------------------------------
(* HybridRetriever and HybridRetrievalEngine: score normalisation and      *)
(* fusion.  Scores and weights are exact fractions.  What the three search *)
(* components returned is an input of the fusion.                          *)

RECURSIVE Gcd(_, _)
Gcd(a, b) == IF b = 0 THEN a ELSE Gcd(b, a % b)

\* a fraction in lowest terms (numerator >= 0, denominator > 0)
Lowest(n, d) == IF n = 0 THEN Frac(0, 1) ELSE Frac(n \div Gcd(n, d), d \div Gcd(n, d))

FracAdd(a, b) == Lowest(a.num * b.den + b.num * a.den, a.den * b.den)

FracMul(a, b) == Lowest(a.num * b.num, a.den * b.den)

\* (a - lo) / (hi - lo), for lo <= a <= hi and lo < hi
FracScale(a, lo, hi) ==
    Lowest((a.num * lo.den - lo.num * a.den) * hi.den * lo.den,
           (hi.num * lo.den - lo.num * hi.den) * a.den * lo.den)

FracEq(a, b) == a.num * b.den = b.num * a.den

\* min(scores) and max(scores) of a non-empty result list
MinScore(results) ==
    LET i == CHOOSE i \in 1..Len(results) :
                 \A j \in 1..Len(results) : FracGe(results[j].score, results[i].score)
    IN results[i].score

MaxScore(results) ==
    LET i == CHOOSE i \in 1..Len(results) :
                 \A j \in 1..Len(results) : FracGe(results[i].score, results[j].score)
    IN results[i].score

\* HybridRetriever._normalize_scores: the list comes back as it is when its
\* scores differ by less than 1e-10 (here: are equal)
NormalizeScoresRetriever(results) ==
    IF results = <<>> THEN results
    ELSE IF FracEq(MaxScore(results), MinScore(results)) THEN results
    ELSE [i \in 1..Len(results) |->
             [results[i] EXCEPT !.score = FracScale(@, MinScore(results), MaxScore(results))]]

\* HybridRetrievalEngine._normalize_scores: equal scores all become 1.0
NormalizeScoresEngine(results) ==
    IF results = <<>> THEN results
    ELSE IF FracEq(MaxScore(results), MinScore(results))
    THEN [i \in 1..Len(results) |-> [results[i] EXCEPT !.score = Frac(1, 1)]]
    ELSE [i \in 1..Len(results) |->
             [results[i] EXCEPT !.score = FracScale(@, MinScore(results), MaxScore(results))]]

NormalizeScores(class, results) ==
    IF class = "HybridRetriever" THEN NormalizeScoresRetriever(results)
    ELSE NormalizeScoresEngine(results)

\* the place of doc_id in score_map (a dict, in insertion order), 0 if absent
MapIndex(score_map, doc_id) ==
    IF \E i \in 1..Len(score_map) : score_map[i].id = doc_id
    THEN CHOOSE i \in 1..Len(score_map) : score_map[i].id = doc_id
    ELSE 0

\* one pass of the keyword loop of _fuse_results: the entry of the id is set
\* to the result with combined_score = score * keyword_weight
RECURSIVE FuseKeyword(_, _, _, _)
FuseKeyword(score_map, keyword, i, weight) ==
    IF i > Len(keyword) THEN score_map
    ELSE LET r == keyword[i]
             entry == [id |-> r.id, score |-> r.score, method |-> r.method,
                       combined_score |-> FracMul(r.score, weight),
                       component_scores |-> [c \in {"keyword"} |-> r.score]]
             k == MapIndex(score_map, r.id)
         IN FuseKeyword(IF k = 0 THEN Append(score_map, entry)
                        ELSE [score_map EXCEPT ![k] = entry],
                        keyword, i + 1, weight)

\* the semantic loop and the graph loop of _fuse_results: an id that is not
\* in score_map gets an entry with combined_score 0.0; then the component's
\* score is recorded and score * weight is added
RECURSIVE FuseComponent(_, _, _, _, _)
FuseComponent(score_map, results, i, component, weight) ==
    IF i > Len(results) THEN score_map
    ELSE LET r == results[i]
             fresh == [id |-> r.id, score |-> r.score, method |-> r.method,
                       combined_score |-> Frac(0, 1), component_scores |-> <<>>]
             with == IF MapIndex(score_map, r.id) = 0 THEN Append(score_map, fresh)
                     ELSE score_map
             k == MapIndex(with, r.id)
         IN FuseComponent(
                [with EXCEPT ![k].component_scores = DictPut(@, component, r.score),
                             ![k].combined_score = FracAdd(@, FracMul(r.score, weight))],
                results, i + 1, component, weight)

\* a sort that is ascending in combined_score
SortByCombinedAscending(score_map) ==
    Reverse(SortDesc([i \in 1..Len(score_map) |->
                        [score_map[i] EXCEPT !.score = score_map[i].combined_score]]))

\* the sort of _fuse_results reads combined_score
SortByCombined(score_map) ==
    SortDesc([i \in 1..Len(score_map) |-> [score_map[i] EXCEPT !.score = score_map[i].combined_score]])

\* _fuse_results of HybridRetriever (class = "HybridRetriever") and of
\* HybridRetrievalEngine: normalise each list, combine, sort descending by
\* combined_score (a stable sort), set score and method
FuseResults(class, weights, keyword, semantic, graph) ==
    LET with_keyword == FuseKeyword(<<>>, NormalizeScores(class, keyword), 1, weights.keyword)
        with_semantic == FuseComponent(with_keyword, NormalizeScores(class, semantic), 1,
                                       "semantic", weights.semantic)
        with_graph == FuseComponent(with_semantic, NormalizeScores(class, graph), 1,
                                    "graph", weights.graph)
        sorted == SortByCombined(with_graph)
    IN [i \in 1..Len(sorted) |-> [sorted[i] EXCEPT !.method = "hybrid"]]

\* a hybrid retrieve that leaves the graph results out
HybridResultsWithoutGraph(class, weights, keyword, semantic, graph, max_results) ==
    Take(FuseResults(class, weights, keyword, semantic, <<>>), max_results)

\* _hybrid_retrieve, given what the three components returned
HybridResults(class, weights, keyword, semantic, graph, max_results) ==
    Take(FuseResults(class, weights, keyword, semantic, graph), max_results)

(* SpecFuse: the three components answer one query with fixed result lists; *)
(* a HybridRetriever, or a HybridRetrievalEngine, of some keyword weight    *)
(* is built over them and retrieves.  The last two calls are kept.          *)
FuseMaxScore == 3

KeywordIds == <<"d1", "d2", "d3">>

\* what bm25_search.search returned: up to three documents in descending
\* order of their scores
KeywordLists ==
    UNION { { [i \in 1..n |-> [id |-> KeywordIds[i], score |-> Frac(f[i], 1), method |-> "bm25"]] :
                f \in { g \in [1..n -> 1..FuseMaxScore] :
                           \A i \in 1..n, j \in 1..n : i < j => g[i] >= g[j] } } :
            n \in 0..Len(KeywordIds) }

ResultOf(id, score, method) == [id |-> id, score |-> score, method |-> method]

\* what semantic_search.search returned
SemanticLists ==
    { <<>>,
      <<ResultOf("d2", Frac(1, 1), "semantic")>>,
      <<ResultOf("d4", Frac(1, 2), "semantic")>>,
      <<ResultOf("d2", Frac(1, 1), "semantic"), ResultOf("d4", Frac(1, 2), "semantic")>>,
      <<ResultOf("d4", Frac(1, 1), "semantic"), ResultOf("d2", Frac(1, 2), "semantic")>> }

\* what graph_search.search returned (an entity without score has 0.5)
GraphLists ==
    { <<>>, <<ResultOf("d4", Frac(1, 2), "graph")>>, <<ResultOf("d3", Frac(1, 1), "graph")>> }

\* config['keyword_weight']; semantic_weight and graph_weight keep their defaults
KeywordWeights == { Frac(0, 1), Frac(3, 10), Frac(1, 1) }

Weights(keyword_weight) ==
    [semantic |-> Frac(1, 2), keyword |-> keyword_weight, graph |-> Frac(1, 5)]

FuseMaxResults == {2, 4}

InitFuse ==
    /\ InitTiers({ Config(2, 1, 5, 5, FALSE, FALSE, TRUE, 1, TRUE) })
    /\ bm25 = EmptyIndex
    /\ chunker = NoCall
    /\ fusion \in { [status |-> "none", keyword |-> k, semantic |-> s, graph |-> g] :
                      k \in KeywordLists, s \in SemanticLists, g \in GraphLists }
    /\ threads = <<>>

\* the call that fusion holds, as the one before the next call
LastCall ==
    IF fusion.status = "none" THEN [status |-> "none"]
    ELSE [status |-> "retrieved", class |-> fusion.class, weights |-> fusion.weights,
          fused |-> fusion.fused]

FuseOut(class) ==
    [op |-> "hybrid_retrieve", status |-> "ok", class |-> class, retrieves |-> out.retrieves,
     last_store |-> out.last_store]

\* fusion after retrieve(query, max_results) of a retriever of the class over
\* the component lists
FusionAfter(class, w, max_results, semantic, graph) ==
    [status |-> "retrieved", keyword |-> fusion.keyword, semantic |-> fusion.semantic,
     graph |-> fusion.graph, class |-> class, weights |-> Weights(w),
     max_results |-> max_results,
     fused |-> FuseResults(class, Weights(w), fusion.keyword, semantic, graph),
     results |-> HybridResults(class, Weights(w), fusion.keyword, semantic, graph, max_results),
     prev |-> LastCall]

\* HybridRetriever(vector_store, graph_store, {'keyword_weight': w}).retrieve(query, max_results)
RetrieverRetrieve ==
    \E w \in KeywordWeights, max_results \in FuseMaxResults :
        /\ fusion' = FusionAfter("HybridRetriever", w, max_results, fusion.semantic, fusion.graph)
        /\ out' = FuseOut("HybridRetriever")
        /\ UNCHANGED <<tierVars, heap, bm25, chunker, threads>>

\* HybridRetrievalEngine({'keyword_weight': w}).retrieve(query, max_results):
\* its _semantic_retrieve and _graph_retrieve return [], its reranking
\* returns the list as it is
EngineRetrieve ==
    \E w \in KeywordWeights, max_results \in FuseMaxResults :
        /\ fusion' = FusionAfter("HybridRetrievalEngine", w, max_results, <<>>, <<>>)
        /\ out' = FuseOut("HybridRetrievalEngine")
        /\ UNCHANGED <<tierVars, heap, bm25, chunker, threads>>

NextFuse == RetrieverRetrieve \/ EngineRetrieve

SpecFuse == InitFuse /\ [][NextFuse]_vars

----------------------------------------------------------------------------
(* SpecRace: threads inside ImmediateContextBuffer.get_recent and          *)
(* SessionMemory.search.  Each tier's lock admits one thread; the items    *)
(* are shared by the tiers, and item.mark_accessed() reads access_count    *)
(* and writes it back in separate bytecodes, between which a thread of the *)
(* other tier may run.                                                     *)
RaceItems == 2
RaceCalls == 3

\* the calls begun so far
RaceBegun == out.retrieves + Cardinality(DOMAIN threads)

\* orchestrator.store('a', metadata={'type': 'task'}), which writes the item to
\* both tiers, while no thread is inside a tier
RaceStore ==
    /\ threads = <<>>
    /\ Store({<<"a">>}, {Meta(Absent, "task", Absent, Absent)}, {NoHint}, {NoConv}, {FALSE}, RaceItems)

\* a thread that holds the tier's lock and is about to mark items[1]
ThreadFrame(op, items) == [op |-> op, ids |-> items, items |-> items, pc |-> "load", count |-> 0]

\* a thread enters buffer.get_recent(): lock, _remove_expired, the item list
GetRecentEnter ==
    /\ "immediate" \notin DOMAIN threads
    /\ RaceBegun < RaceCalls
    /\ LET purged == RemoveExpired(buffer, heap, cfg.immediate_buffer_ttl, now)
           items == GetRecentItems(purged, heap, 0, NoConv)
       IN /\ buffer' = purged
          /\ IF items = <<>>
             THEN /\ threads' = threads
                  /\ out' = Out("get_recent", "ok", 0, NoRequest, 0, items, <<>>, now, out)
             ELSE /\ threads' = DictPut(threads, "immediate", ThreadFrame("get_recent", items))
                  /\ out' = out
    /\ UNCHANGED <<cfg, now, heap, sess, convIdx, taskIdx, lt, ltTasks, cache, resps, metrics, coros,
                   bm25, chunker, fusion>>

\* a thread enters session.search('a'): lock, candidates, scores, the result list
SearchEnter ==
    /\ "session" \notin DOMAIN threads
    /\ RaceBegun < RaceCalls
    /\ LET items == SearchResults(SessionState, heap, <<"a">>, RaceItems, NoFilters, NoConv, Absent)
       IN /\ heap' = SearchScored(SearchCandidates(SessionState, heap, NoFilters, NoConv, Absent),
                                  heap, <<"a">>)
          /\ IF items = <<>>
             THEN /\ threads' = threads
                  /\ out' = Out("search", "ok", 0, NoRequest, 0, items, <<>>, now, out)
             ELSE /\ threads' = DictPut(threads, "session", ThreadFrame("search", items))
                  /\ out' = out
    /\ UNCHANGED <<cfg, now, buffer, sess, convIdx, taskIdx, lt, ltTasks, cache, resps, metrics, coros,
                   bm25, chunker, fusion>>

\* mark_accessed, first half: the thread reads self.access_count
MarkLoad ==
    \E tier \in DOMAIN threads :
        /\ threads[tier].pc = "load"
        /\ threads' = [threads EXCEPT ![tier].pc = "store",
                                      ![tier].count = heap[threads[tier].items[1]].access_count]
        /\ UNCHANGED <<tierVars, heap, out, bm25, chunker, fusion>>

\* mark_accessed, second half: the thread writes the count it read plus 1, and
\* last_accessed; after the last item the call returns and releases the lock
MarkStore ==
    \E tier \in DOMAIN threads :
        LET frame == threads[tier]
        IN /\ frame.pc = "store"
           /\ heap' = [heap EXCEPT ![frame.items[1]].access_count = frame.count + 1,
                                   ![frame.items[1]].last_accessed = now]
           /\ IF Len(frame.items) > 1
              THEN /\ threads' = [threads EXCEPT ![tier].pc = "load", ![tier].items = Tail(@)]
                   /\ out' = out
              ELSE /\ threads' = DictDel(threads, tier)
                   /\ out' = Out(frame.op, "ok", 0, NoRequest, 0, frame.ids, <<>>, now, out)
           /\ UNCHANGED <<tierVars, bm25, chunker, fusion>>

InitRace == InitWith({ Config(2, 1, 2, 100, FALSE, FALSE, TRUE, 1, FALSE) })

NextRace == RaceStore \/ GetRecentEnter \/ SearchEnter \/ MarkLoad \/ MarkStore

SpecRace == InitRace /\ [][NextRace]_vars

----------------------------------------------------------------------------
(* SpecLock: store_sync and retrieve_sync called from two threads.  The    *)
(* tiers take their own locks, so a tier call is one step; the response    *)
(* cache is a plain dict and the metrics are plain attributes, so a thread *)
(* can be preempted between two bytecodes that touch them: between         *)
(* `key not in self._context_cache` and `self._context_cache[key]`, and    *)
(* between the load and the store of `self.total_stores += 1`.             *)

LockItems == 2
LockCalls == 2

ThreadIds == {"t1", "t2"}

\* the world W becomes the state of the orchestrator; the threads move with it
CommitWorld(W) ==
    /\ now' = W.now
    /\ heap' = W.heap
    /\ buffer' = W.buffer
    /\ sess' = W.sess
    /\ convIdx' = W.convIdx
    /\ taskIdx' = W.taskIdx
    /\ lt' = W.lt
    /\ ltTasks' = W.ltTasks
    /\ cache' = W.cache
    /\ resps' = W.resps
    /\ metrics' = W.metrics
    /\ out' = W.out
    /\ UNCHANGED <<cfg, coros, bm25, chunker, fusion>>

\* a thread inside store or retrieve: where it is (pc), the counter it is about
\* to increment and the value it loaded of it, the item of a store, the request
\* and the response object of a retrieve
LockFrame(op, pc, counter, id, layers, req, resp) ==
    [op |-> op, pc |-> pc, counter |-> counter, count |-> 0, id |-> id, layers |-> layers,
     req |-> req, resp |-> resp]

\* retrieve calls begun so far
LockRetrieves == out.retrieves + Cardinality({ t \in DOMAIN threads : threads[t].op = "retrieve" })

LockRequest == Request(<<>>, 2, NoTokens, TRUE, TRUE, FALSE, NoFilters, NoConv)

\* a thread calls store_sync: the item is built and written to its tiers
\* (store, up to metrics.record_storage)
LockStoreEnter ==
    \E t \in ThreadIds :
        /\ t \notin DOMAIN threads
        /\ Len(heap) < LockItems
        /\ CommitWorld(StoreTiers(World, cfg, <<"a">>, NoMeta, NoHint, NoConv).W)
        /\ threads' = DictPut(threads, t,
                          LockFrame("store", "load", "total_stores", Len(heap) + 1,
                                    TargetLayers(NoMeta, NoHint, cfg), NoRequest, 0))

\* `self.<counter> += 1`, first half: the thread loads the counter
CounterLoad ==
    \E t \in DOMAIN threads :
        /\ threads[t].pc = "load"
        /\ threads' = [threads EXCEPT ![t].pc = "add", ![t].count = metrics[threads[t].counter]]
        /\ UNCHANGED <<tierVars, heap, out, bm25, chunker, fusion>>

\* the per-layer counters of record_storage, incremented after total_stores
RecordLayers(m, layers) ==
    [m EXCEPT !.immediate_stores = IF InSeq(LAYER_IMMEDIATE, layers) THEN @ + 1 ELSE @,
              !.session_stores = IF InSeq(LAYER_SESSION, layers) THEN @ + 1 ELSE @,
              !.long_term_stores = IF InSeq(LAYER_LONG_TERM, layers) THEN @ + 1 ELSE @]

\* `self.<counter> += 1`, second half: the thread stores the value it loaded
\* plus 1, and runs on to the next access of the cache or of a counter:
\* record_storage to _invalidate_cache, record_cache_hit to the return of the
\* cached response, record_cache_miss to the tier reads, record_retrieval to
\* the return of the new response
CounterStore ==
    \E t \in DOMAIN threads :
        LET frame == threads[t]
            added == [metrics EXCEPT ![frame.counter] = frame.count + 1]
        IN /\ frame.pc = "add"
           /\ CASE frame.counter = "total_stores" ->
                     CommitWorld([World EXCEPT !.metrics = RecordLayers(added, frame.layers)])
                     /\ threads' = [threads EXCEPT ![t].pc = "invalidate"]
                [] frame.counter = "cache_misses" ->
                     CommitWorld([World EXCEPT !.metrics = added])
                     /\ threads' = [threads EXCEPT ![t].pc = "tiers"]
                [] frame.counter = "cache_hits" ->
                     CommitWorld([World EXCEPT
                         !.metrics = added,
                         !.out = Out("retrieve", "cached", 0, frame.req, frame.resp,
                                     resps[frame.resp].items, <<>>, now, out)])
                     /\ threads' = DictDel(threads, t)
                [] frame.counter = "total_retrievals" ->
                     CommitWorld([World EXCEPT
                         !.metrics = added,
                         !.out = Out("retrieve", "ok", 0, frame.req, frame.resp,
                                     resps[frame.resp].items, <<>>, now, out)])
                     /\ threads' = DictDel(threads, t)

\* store: `self._context_cache.clear()` and the return
LockInvalidate ==
    \E t \in DOMAIN threads :
        /\ threads[t].pc = "invalidate"
        /\ CommitWorld([(IF cfg.enable_caching THEN InvalidateCache(World) ELSE World) EXCEPT
               !.out = Out("store", "ok", threads[t].id, NoRequest, 0, <<>>, <<>>, now, out)])
        /\ threads' = DictDel(threads, t)

\* a thread calls retrieve_sync; _get_from_cache: `key not in self._context_cache`
LockRetrieveEnter ==
    \E t \in ThreadIds :
        /\ t \notin DOMAIN threads
        /\ LockRetrieves < LockCalls
        /\ threads' = DictPut(threads, t,
               IF CacheIndex(cache, CacheKey(LockRequest)) = 0
               THEN LockFrame("retrieve", "load", "cache_misses", 0, <<>>, LockRequest, 0)
               ELSE LockFrame("retrieve", "lookup", "cache_hits", 0, <<>>, LockRequest, 0))
        /\ UNCHANGED <<tierVars, heap, out, bm25, chunker, fusion>>

\* _get_from_cache: `response, cached_at = self._context_cache[key]`, which
\* raises KeyError when the key is gone; then the age test and the flag
LockLookup ==
    \E t \in DOMAIN threads :
        LET key == CacheKey(threads[t].req)
            i == CacheIndex(cache, key)
        IN /\ threads[t].pc = "lookup"
           /\ IF i = 0
              THEN /\ CommitWorld([World EXCEPT
                          !.out = Out("retrieve", "raised", 0, threads[t].req, 0, <<>>, <<>>, now, out)])
                   /\ threads' = DictDel(threads, t)
              ELSE IF CacheHit(World, cfg, key)
              THEN /\ CommitWorld(GetFromCache(World, cfg, key))
                   /\ threads' = [threads EXCEPT ![t].pc = "load", ![t].resp = cache[i].resp]
              ELSE /\ CommitWorld(GetFromCache(World, cfg, key))
                   /\ threads' = [threads EXCEPT ![t].pc = "load", ![t].counter = "cache_misses"]

\* retrieve after the miss: the tier reads, the assembly, the response and
\* _add_to_cache, up to metrics.record_retrieval
LockReadTiers ==
    \E t \in DOMAIN threads :
        LET req == threads[t].req
            r == ReadTiers(World, cfg, req)
            W == RetrieveFinish(r.W, cfg, req, r.immediate, r.session, <<>>)
        IN /\ threads[t].pc = "tiers"
           /\ CommitWorld([W EXCEPT !.metrics = metrics, !.out = out])
           /\ threads' = [threads EXCEPT ![t].pc = "load", ![t].counter = "total_retrievals",
                                         ![t].resp = Len(W.resps)]

InitLock == InitWith({ Config(2, 1, 2, 100, FALSE, FALSE, TRUE, 1, FALSE) })

NextLock ==
    \/ LockStoreEnter
    \/ CounterLoad
    \/ CounterStore
    \/ LockInvalidate
    \/ LockRetrieveEnter
    \/ LockLookup
    \/ LockReadTiers

SpecLock == InitLock /\ [][NextLock]_vars

----------------------------------------------------------------------------
(* SpecClear: the orchestrator with clear_immediate and clear_session      *)
(* between stores and retrieves                                            *)

ClearItems == 2
ClearCalls == 2

\* the residents of a tier that a clear takes out, in tier order
Removed(before, after) == SelectSeq(before, LAMBDA i : ~InSeq(i, after))

\* ContextOrchestrator.clear_immediate: immediate_buffer.clear(), nothing else
ClearImmediate ==
    /\ Commit([World EXCEPT
           !.buffer = BufferCleared(buffer, heap, NoConv),
           !.out = Out("clear_immediate", "ok", 0, NoRequest, 0,
                       Removed(buffer, BufferCleared(buffer, heap, NoConv)), <<>>, now, out)])
    /\ UNCHANGED <<cfg, coros>>

\* the session tier after ContextOrchestrator.clear_session(conversation_id)
SessionCleared(S, conv) ==
    IF ConvSet(conv) THEN ClearConversation(S, conv)
    ELSE [sess |-> <<>>, convIdx |-> EmptyIdx(Convs), taskIdx |-> EmptyIdx(Tasks)]

\* ContextOrchestrator.clear_session: clear_conversation or clear, nothing else
ClearSession(convs) ==
    \E conv \in convs :
        /\ Commit([WithSession(World, SessionCleared(SessionState, conv)) EXCEPT
               !.out = Out("clear_session", "ok", 0, NoRequest, 0,
                           Removed(sess, SessionCleared(SessionState, conv).sess), <<>>, now, out)])
        /\ UNCHANGED <<cfg, coros>>

ClearMetas == { NoMeta, Meta("critical", Absent, Absent, Absent) }

\* requests of the Immediate tier, of the Session tier and of both, with
\* different max_results and so different cache keys
ClearRequests ==
    { Request(<<>>, 1, NoTokens, TRUE, FALSE, FALSE, NoFilters, NoConv),
      Request(<<>>, 2, NoTokens, FALSE, TRUE, FALSE, NoFilters, NoConv),
      Request(<<>>, 3, NoTokens, TRUE, TRUE, FALSE, NoFilters, NoConv) }

InitClear ==
    InitWith({ Config(2, 1, 2, 100, FALSE, FALSE, c, 1, FALSE) : c \in BOOLEAN })

NextClear ==
    \/ Store({<<"a">>}, ClearMetas, {NoHint}, {NoConv, "c1"}, {FALSE}, ClearItems)
    \/ Retrieve(ClearRequests, {FALSE}, ClearCalls)
    \/ ClearImmediate
    \/ ClearSession({NoConv, "c1"})

SpecClear == InitClear /\ [][NextClear]_vars

----------------------------------------------------------------------------
(* SpecLoop: the event loop.  ltTasks is the loop's queue of ready handles *)
(* in the order call_soon put them there: the add_async tasks that store   *)
(* created, and the callback by which run_until_complete stops the loop    *)
(* once the main coroutine is done.  coros holds the main coroutine of the *)
(* loop that is running: the store of a store_sync, or a caller's          *)
(* coroutine that awaits store.  LongTermStore.add_async has no await, so  *)
(* a task runs to its end in its first step.                               *)

LoopItems == 3

\* the handle of the callback that stops the loop
StopHandle == 0

LoopMetas == { NoMeta, Meta(Absent, "fact", Absent, Absent), Meta("high", Absent, "permanent", Absent) }

\* the world W becomes the state of the tiers, the cache and the observation
CommitWorldOf(W) ==
    /\ now' = W.now
    /\ heap' = W.heap
    /\ buffer' = W.buffer
    /\ sess' = W.sess
    /\ convIdx' = W.convIdx
    /\ taskIdx' = W.taskIdx
    /\ lt' = W.lt
    /\ ltTasks' = W.ltTasks
    /\ cache' = W.cache
    /\ resps' = W.resps
    /\ metrics' = W.metrics
    /\ out' = W.out

MainFrame(kind) ==
    [kind |-> kind, id |-> 0, layers |-> <<>>, req |-> NoRequest, immediate |-> <<>>, session |-> <<>>]

\* store_sync outside a loop: asyncio.run starts a loop whose main coroutine is
\* store; store runs to its return without suspending (with enable_async the
\* long-term write is only scheduled), and the stop callback is queued
StoreSync ==
    \E content \in {<<"a">>}, meta \in LoopMetas :
        /\ coros = <<>>
        /\ Len(heap) < LoopItems
        /\ LET W == StoreCall(World, cfg, content, meta, NoHint, NoConv, FALSE)
           IN CommitWorldOf([W EXCEPT !.ltTasks = Append(@, StopHandle)])
        /\ coros' = <<MainFrame("store_sync")>>
        /\ UNCHANGED <<cfg, bm25, chunker, fusion, threads>>

\* asyncio.run(main()) of a caller whose coroutine awaits store
MainEnter ==
    /\ coros = <<>>
    /\ Len(heap) < LoopItems
    /\ coros' = <<MainFrame("main")>>
    /\ UNCHANGED <<cfg, now, heap, buffer, sess, convIdx, taskIdx, lt, ltTasks, cache, resps, metrics,
                   out, bm25, chunker, fusion, threads>>

\* `await orchestrator.store(...)` in the caller's coroutine
StoreAwaited ==
    \E content \in {<<"a">>}, meta \in LoopMetas :
        /\ coros # <<>> /\ coros[1].kind = "main"
        /\ ~InSeq(StopHandle, ltTasks)
        /\ Len(heap) < LoopItems
        /\ CommitWorldOf(StoreCall(World, cfg, content, meta, NoHint, NoConv, FALSE))
        /\ UNCHANGED <<cfg, coros, bm25, chunker, fusion, threads>>

\* the caller's coroutine returns: the stop callback is queued
MainReturn ==
    /\ coros # <<>> /\ coros[1].kind = "main"
    /\ ~InSeq(StopHandle, ltTasks)
    /\ ltTasks' = Append(ltTasks, StopHandle)
    /\ UNCHANGED <<cfg, now, heap, buffer, sess, convIdx, taskIdx, lt, cache, resps, metrics, coros,
                   out, bm25, chunker, fusion, threads>>

\* the loop runs the first ready handle, an add_async task: the caller's
\* coroutine has suspended or is done
LoopRunTask ==
    /\ ltTasks # <<>> /\ ltTasks[1] # StopHandle
    /\ lt' = LongTermAdd(World, ltTasks[1]).lt
    /\ ltTasks' = Tail(ltTasks)
    /\ UNCHANGED <<cfg, now, heap, buffer, sess, convIdx, taskIdx, cache, resps, metrics, coros,
                   out, bm25, chunker, fusion, threads>>

\* the loop runs the stop callback; asyncio.run cancels the tasks that are
\* still pending and closes the loop
LoopStop ==
    /\ ltTasks # <<>> /\ ltTasks[1] = StopHandle
    /\ ltTasks' = <<>>
    /\ coros' = <<>>
    /\ UNCHANGED <<cfg, now, heap, buffer, sess, convIdx, taskIdx, lt, cache, resps, metrics,
                   out, bm25, chunker, fusion, threads>>

InitLoop == InitWith({ Config(2, 1, 2, 100, FALSE, TRUE, c, 1, TRUE) : c \in BOOLEAN })

NextLoop ==
    \/ StoreSync
    \/ MainEnter
    \/ StoreAwaited
    \/ MainReturn
    \/ LoopRunTask
    \/ LoopStop

SpecLoop == InitLoop /\ [][NextLoop]_vars

\* the loop runs its ready handles: a handle that is ready is run once the
\* running coroutine suspends or ends
FairSpecLoop == SpecLoop /\ WF_vars(LoopRunTask) /\ WF_vars(LoopStop)

----------------------------------------------------------------------------
(* SpecScope: one orchestrator with the three tiers, caching off, under     *)
(* stores of two conversations and of metadata that route to different      *)
(* tiers, and retrieves over every tier mask with and without filters, a    *)
(* conversation and a token budget.                                         *)

ScopeItems == 2
ScopeCalls == 1
ScopeBudget == 2

\* general (Immediate), task (Immediate, Session), fact of high importance (all
\* three), permanent (Immediate, LongTerm)
ScopeMetas ==
    { NoMeta, Meta(Absent, "task", Absent, Absent), Meta("high", "fact", Absent, Absent),
      Meta(Absent, Absent, "permanent", Absent) }

\* filters = None / {'type': 'fact'}
ScopeFilters == { NoFilters, << [key |-> "type", is_list |-> FALSE, vals |-> <<"fact">>] >> }

ScopeRequests ==
    { Request(<<>>, n, T, i, s, l, f, conv) :
        n \in 1..2, T \in {NoTokens, ScopeBudget}, i \in BOOLEAN, s \in BOOLEAN, l \in BOOLEAN,
        f \in ScopeFilters, conv \in {NoConv, "c1"} }

InitScope == InitWith({ Config(2, 1, 2, 100, FALSE, FALSE, FALSE, 1, TRUE) })

NextScope ==
    \/ Store({<<"a">>, <<"b">>}, ScopeMetas, {NoHint}, {"c1", "c2"}, {FALSE}, ScopeItems)
    \/ Retrieve(ScopeRequests, {FALSE}, ScopeCalls)

SpecScope == InitScope /\ [][NextScope]_vars

----------------------------------------------------------------------------
(* Claims about the orchestrator *)

\* the last call was a retrieve that returned a response
Retrieved == out.op = "retrieve" /\ out.status # "raised"

\* the last call was a retrieve that computed its response (a cache miss)
RetrievedFresh == out.op = "retrieve" /\ out.status = "ok"

ReturnedContents == { heap[out.ids[k]].content : k \in 1..Len(out.ids) }

\* the retrieve follows a store of content C = query, nothing written since
AfterStoreOfQuery ==
    /\ out.last_store # 0
    /\ heap[out.last_store].content = out.req.query
    /\ out.req.include_immediate

\* the best score with which item i stands in the merged candidate list
IsBestScore(i, sc) ==
    /\ \E k \in 1..Len(out.cands) : out.cands[k].id = i /\ out.cands[k].score = sc
    /\ \A k \in 1..Len(out.cands) : out.cands[k].id = i => ~FracGt(out.cands[k].score, sc)

SharedKeys ==
    { ContentHash(heap[out.cands[k].id].content) : k \in
        { k \in 1..Len(out.cands) : \E j \in 1..Len(out.cands) :
            j # k /\ ContentHash(heap[out.cands[j].id].content) = ContentHash(heap[out.cands[k].id].content) } }

ReturnedWithKey(key) == { k \in 1..Len(out.ids) : ContentHash(heap[out.ids[k]].content) = key }

\* the returned item at position k has the highest score among the candidates of its key
ReturnedIsBest(k) ==
    \E j \in 1..Len(out.cands) :
        /\ out.cands[j].id = out.ids[k]
        /\ \A m \in 1..Len(out.cands) :
              ContentHash(heap[out.cands[m].id].content) = ContentHash(heap[out.ids[k]].content)
              => FracGe(out.cands[j].score, out.cands[m].score)

\* C2 as stated: of several candidates with the same trim+lowercase content
\* exactly one is in the response, one of highest score
C2_DedupExactlyOne ==
    RetrievedFresh =>
        \A key \in SharedKeys :
            /\ Cardinality(ReturnedWithKey(key)) = 1
            /\ \A k \in ReturnedWithKey(key) : ReturnedIsBest(k)

\* C2 amended: of several candidates with the same trim+lowercase content at
\* most one is in the response, and it is one of highest score; exactly one is
\* when no max_tokens cut applies and the response holds fewer than max_results items
C2_DedupAtMostOne ==
    RetrievedFresh =>
        \A key \in SharedKeys :
            /\ Cardinality(ReturnedWithKey(key)) <= 1
            /\ \A k \in ReturnedWithKey(key) : ReturnedIsBest(k)
            /\ (~TokensSet(out.req.max_tokens) /\ Len(out.ids) < out.req.max_results)
               => Cardinality(ReturnedWithKey(key)) = 1

\* C2 witness: two different items share a key and the later candidate, of
\* higher score, is the one returned
C2_Witness ==
    /\ RetrievedFresh
    /\ \E j, m \in 1..Len(out.cands) :
          /\ j < m
          /\ out.cands[j].id # out.cands[m].id
          /\ ContentHash(heap[out.cands[j].id].content) = ContentHash(heap[out.cands[m].id].content)
          /\ FracGt(out.cands[m].score, out.cands[j].score)
          /\ InSeq(out.cands[m].id, out.ids)
          /\ ~InSeq(out.cands[j].id, out.ids)

RECURSIVE SumTokens(_)
SumTokens(ids) == IF ids = <<>> THEN 0 ELSE ItemTokens(heap[ids[1]].content) + SumTokens(Tail(ids))

\* C3: a response to a request with max_tokens = T holds items whose token
\* estimates floor(len(content)/4) sum to at most T
C3_TokenBudget ==
    (Retrieved /\ out.req.max_tokens # NoTokens) => SumTokens(out.ids) <= out.req.max_tokens

\* the metadata of the item of the last store
StoredMeta == heap[out.id].metadata

\* C9: store without layer hint writes to Immediate always, to Session iff
\* importance is high or critical or type is task, decision or preference, to
\* LongTerm (written, or its write task created) iff LongTerm is enabled and
\* persistence is permanent or type is fact, knowledge or preference
C9_Routing ==
    (out.op = "store" /\ out.status = "ok") =>
        /\ InSeq(out.id, buffer)
        /\ InSeq(out.id, sess) <=>
              (\/ StoredMeta.importance \in {"high", "critical"}
               \/ StoredMeta.type \in {"task", "decision", "preference"})
        /\ (InSeq(out.id, lt) \/ InSeq(out.id, ltTasks)) <=>
              (/\ cfg.enable_long_term
               /\ (\/ StoredMeta.persistence = "permanent"
                   \/ StoredMeta.type \in {"fact", "knowledge", "preference"}))

\* C9 witness: a preference of low importance went to all three tiers
C9_Witness ==
    /\ out.op = "store"
    /\ StoredMeta.type = "preference"
    /\ StoredMeta.importance = "low"
    /\ InSeq(out.id, buffer)
    /\ InSeq(out.id, sess)
    /\ InSeq(out.id, lt) \/ InSeq(out.id, ltTasks)

\* the recency read of C10: query "", max_results >= capacity, Session excluded
RecencyRead ==
    /\ out.req.query = <<>>
    /\ out.req.max_results >= cfg.immediate_buffer_size
    /\ ~out.req.include_session
    /\ out.req.include_immediate
    /\ out.last_store = Len(heap)

NothingExpired ==
    \/ cfg.immediate_buffer_ttl = 0
    \/ \A i \in 1..Len(heap) : out.at - heap[i].timestamp <= cfg.immediate_buffer_ttl

\* the last min(n, k) stored items, newest first
LastStored ==
    LET n == Len(heap)
        k == cfg.immediate_buffer_size
    IN [i \in 1..(IF n < k THEN n ELSE k) |-> n + 1 - i]

----------------------------------------------------------------------------
(* Claims about the ImmediateContextBuffer (SpecBuf) *)

Expired(i, t) == cfg.immediate_buffer_ttl # 0 /\ heap[i].timestamp < t - cfg.immediate_buffer_ttl

\* C4: get_recent and get_all never return an item whose timestamp is older
\* than now - ttl_seconds, whatever the adds and the items' timestamps
C4_ExpiredNeverReturned ==
    out.op \in {"get_recent", "get_all"} => \A k \in 1..Len(out.ids) : ~Expired(out.ids[k], out.at)

Min(S) == CHOOSE x \in S : \A y \in S : x <= y

----------------------------------------------------------------------------
(* Claims about the SessionMemory (SpecSess) *)

----------------------------------------------------------------------------
(* Claims about failing backends (SpecFault) and interleaving (SpecAsync) *)

\* C7: store, retrieve and HybridRetriever.retrieve never fail because an
\* optional backend raises or is absent
C7_NeverFails == out.status # "raised"

\* C8: a store that completes leaves the response cache empty, so that every
\* entry found later was inserted after the most recent completed store; and a
\* retrieve is served from the cache only from an entry at most cache_ttl old
C8_CacheFreshness ==
    [][/\ metrics'.total_stores = metrics.total_stores + 1 => cache' = <<>>
       /\ (out'.retrieves = out.retrieves + 1 /\ out'.status = "cached")
          => LET i == CacheIndex(cache, CacheKey(out'.req))
             IN /\ i # 0
                /\ cache[i].resp = out'.resp
                /\ now - cache[i].at <= cfg.cache_ttl]_vars

\* C8 witness: a retrieve suspended across a completing store inserted its
\* response afterwards, and a later retrieve is served that response, which
\* lacks the item of the store
C8_Witness ==
    /\ out.op = "retrieve"
    /\ out.status = "cached"
    /\ metrics.total_stores > 0
    /\ out.last_store # 0
    /\ InSeq(out.last_store, buffer)
    /\ Len(out.ids) < out.req.max_results
    /\ \A k \in 1..Len(out.ids) : heap[out.ids[k]].content # heap[out.last_store].content

----------------------------------------------------------------------------
(* Claims about SessionMemory called directly (SpecEvict) *)

\* the step is an add of a new item that ran an eviction
EvictingAdd ==
    /\ out'.op = "add"
    /\ out'.status = "ok"
    /\ metrics'.sess_evictions = metrics.sess_evictions + 1

\* the residents the step removed
Victims == Range(sess) \ Range(sess')

\* position of a resident id in the dict order of _items
Pos(ids, i) == CHOOSE k \in 1..Len(ids) : ids[k] = i

\* the time the eviction score counts the age from
LastAccess(item) == IF item.last_accessed # NoTime THEN item.last_accessed ELSE item.timestamp

SameScore(a, b) == a.num * b.den = b.num * a.den

\* v is of minimal evict_score among the residents, and no resident of the same
\* age and access count has a lower importance
IsMinimal(v) ==
    \A j \in Range(sess) :
        /\ FracGe(EvictScore(heap[j], now), EvictScore(heap[v], now))
        /\ (/\ LastAccess(heap[j]) = LastAccess(heap[v])
            /\ heap[j].access_count = heap[v].access_count)
           => heap[j].importance_score >= heap[v].importance_score

\* C11 as stated: an add that evicts removes one resident of minimal
\* evict_score, among those of minimal score one of oldest timestamp, and never
\* a higher-importance item while a lower one of equal age and access count stays
C11_EvictsMinimumOldest ==
    [][EvictingAdd =>
          /\ Cardinality(Victims) = 1
          /\ \A v \in Victims :
                /\ IsMinimal(v)
                /\ \A j \in Range(sess) :
                      SameScore(EvictScore(heap[j], now), EvictScore(heap[v], now))
                      => heap[v].timestamp <= heap[j].timestamp]_vars

\* C11 amended: an add that evicts removes one resident of minimal evict_score,
\* among those of minimal score the one inserted first, and never a
\* higher-importance item while a lower one of equal age and access count stays
C11_EvictsMinimumFirst ==
    [][EvictingAdd =>
          /\ Cardinality(Victims) = 1
          /\ \A v \in Victims :
                /\ IsMinimal(v)
                /\ \A j \in Range(sess) :
                      SameScore(EvictScore(heap[j], now), EvictScore(heap[v], now))
                      => Pos(sess, v) <= Pos(sess, j)]_vars

\* C11 witness: the third add evicted the first-inserted of two residents of
\* equal score, the one with the newer timestamp
C11_Witness ==
    /\ out.op = "add"
    /\ out.status = "ok"
    /\ out.id = 3
    /\ metrics.sess_evictions = 1
    /\ \A i \in 1..Len(heap) : heap[i].content = <<"a">>
    /\ sess = <<2, 3>>
    /\ SameScore(EvictScore(heap[1], out.at), EvictScore(heap[2], out.at))
    /\ heap[1].timestamp > heap[2].timestamp

\* C12: a re-add of a resident id leaves exactly one entry with that id, holding
\* the new content, and evicts no other resident, also at max_size
C12_ReAddInPlace ==
    [][(out'.op = "readd" /\ out'.status = "ok" /\ out' # out) =>
          /\ Cardinality({ k \in 1..Len(sess') : sess'[k] = out'.id }) = 1
          /\ heap'[out'.id].content = <<"b">>
          /\ Range(sess') = Range(sess)]_vars

----------------------------------------------------------------------------
(* Claims about consolidation and the indices (SpecCons, SpecIdx) *)

\* C13: SessionMemory.add never raises and reports success, whatever the
\* sequence of adds over conversations, with consolidation enabled
C13_AddNeverRaises == out.op = "add" => out.status = "ok"

\* the ids of the resident items of conversation c, of task t
ResidentOfConv(c) == { id \in Range(sess) : heap[id].conversation_id = c }
ResidentOfTask(t) == { id \in Range(sess) : heap[id].metadata.task_id = t }

\* C19: the secondary indices agree with the primary store: an id is listed
\* under a conversation (a task) iff a resident item of that id has that
\* conversation_id (that metadata.task_id)
C19_IndicesAgree ==
    /\ \A c \in Convs : convIdx[c] = ResidentOfConv(c)
    /\ \A t \in Tasks : taskIdx[t] = ResidentOfTask(t)

\* is the list p a listing of the set G of ids in timestamp order
IsTimestampListing(p, G) ==
    /\ Range(p) = G
    /\ \A k \in 1..(Len(p) - 1) :
          /\ p[k] # p[k + 1]
          /\ heap[p[k]].timestamp <= heap[p[k + 1]].timestamp

\* is the resident item n of the next state the synthetic item of the group G
\* of conversation c
IsSyntheticOf(n, G, c) ==
    /\ heap'[n].metadata.type = "consolidated"
    /\ heap'[n].conversation_id = c
    /\ \A g \in G : heap'[n].timestamp <= heap[g].timestamp
    /\ \E g \in G : heap'[n].timestamp = heap[g].timestamp
    /\ \E p \in [1..Cardinality(G) -> G] :
          /\ IsTimestampListing(p, G)
          /\ heap'[n].content = SummarizeItems(p, heap)

\* C20: a consolidation replaces every group of at least 5 resident items of
\* one conversation by a single synthetic item: the originals are no longer
\* resident, and exactly one new resident item is of type "consolidated", with
\* the earliest member timestamp, the conversation_id of the group, and the
\* members listed in timestamp order as content
C20_ConsolidationReplacesGroups ==
    [][metrics'.sess_consolidations = metrics.sess_consolidations + 1 =>
         \A c \in Convs :
            Cardinality(ResidentOfConv(c)) >= ConsolidateMinGroup =>
               /\ ResidentOfConv(c) \cap Range(sess') = {}
               /\ Cardinality({ n \in Range(sess') \ Range(sess) :
                                   IsSyntheticOf(n, ResidentOfConv(c), c) }) = 1
      ]_vars

----------------------------------------------------------------------------
(* Claims about the response cache *)

\* the step is a retrieve served from the response cache
ServesCached == out'.retrieves = out.retrieves + 1 /\ out'.status = "cached"

\* C14: a cached response is served only to a request that agrees with the
\* request it was computed for on query, max_results, max_tokens, the tier
\* mask, strategy, filters and conversation_id; stated for the response that
\* the call before computed
C14_CacheKeyCoversRequest ==
    [][(ServesCached /\ out.op = "retrieve" /\ out.status = "ok" /\ out'.resp = out.resp)
       => out'.req = out.req]_vars

\* the entries of the cache before the step that the step dropped
Dropped == { e \in Range(cache) : e \notin Range(cache') }

\* a retrieve missed the cache when it was full
Overflows ==
    /\ out'.retrieves = out.retrieves + 1
    /\ out'.status = "ok"
    /\ Len(cache) = CacheLimit
    /\ CacheIndex(cache, CacheKey(out'.req)) = 0

\* C16: after a retrieve the cache holds at most 100 entries; an insertion that
\* takes it past 100 drops exactly 20 entries, none of them inserted later than
\* an entry that stays, whether or not a dropped entry was served since, and
\* keeps the entry just inserted
C16_CacheLimit ==
    [][/\ Len(cache') <= CacheLimit
       /\ Overflows =>
            /\ Cardinality(Dropped) = CacheDrop
            /\ Len(cache') = CacheLimit + 1 - CacheDrop
            /\ \A d \in Dropped : \A k \in 1..Len(cache') : d.at <= cache'[k].at
            /\ \A k \in 1..(Len(cache') - 1) : cache'[k] \in Range(cache)
            /\ cache'[Len(cache')] = [key |-> CacheKey(out'.req), resp |-> out'.resp, at |-> now]
      ]_vars

\* the cache has overflowed after its oldest entry was served from it
C16_Witness ==
    /\ out.op = "retrieve"
    /\ metrics.cache_misses = CacheLimit + 1
    /\ metrics.cache_hits = 1
    /\ resps[1].cache_hit
    /\ Len(cache) = CacheLimit + 1 - CacheDrop
    /\ CacheIndex(cache, CacheKey(CacheRequest(1))) = 0
    /\ cache[1].at < cache[Len(cache)].at

----------------------------------------------------------------------------
(* Claims about the token budget (SpecTokens) *)

RECURSIVE TotalChars(_)
TotalChars(ids) == IF ids = <<>> THEN 0 ELSE Len(heap[ids[1]].content) + TotalChars(Tail(ids))

\* ContextResponse.total_tokens of the response of the last call
TotalTokens == TotalChars(out.ids) \div 4

\* C18: the total_tokens of a response to a request with max_tokens = T,
\* floor(total characters / 4), is at most T
C18_TotalTokensWithinBudget ==
    (Retrieved /\ out.req.max_tokens # NoTokens) => TotalTokens <= out.req.max_tokens

----------------------------------------------------------------------------
(* Claims about store with a layer hint (SpecHint) *)

\* the step changes the per-tier store counters only for layer, by one
CountsOnly(layer) ==
    /\ metrics'.immediate_stores = metrics.immediate_stores + (IF layer = LAYER_IMMEDIATE THEN 1 ELSE 0)
    /\ metrics'.session_stores = metrics.session_stores + (IF layer = LAYER_SESSION THEN 1 ELSE 0)
    /\ metrics'.long_term_stores = metrics.long_term_stores + (IF layer = LAYER_LONG_TERM THEN 1 ELSE 0)

\* the step writes the new item to layer (for LongTerm: writes it or creates
\* its write task) and leaves the other tiers as they were
WritesOnly(layer) ==
    /\ IF layer = LAYER_IMMEDIATE THEN InSeq(Len(heap'), buffer') ELSE buffer' = buffer
    /\ IF layer = LAYER_SESSION THEN InSeq(Len(heap'), sess') ELSE sess' = sess
    /\ IF layer = LAYER_LONG_TERM
       THEN InSeq(Len(heap'), lt') \/ InSeq(Len(heap'), ltTasks')
       ELSE lt' = lt /\ ltTasks' = ltTasks

\* C17: a store with layer_hint = L writes the item to tier L and to no other
\* tier, and changes the per-tier store counters only for L
C17_HintedStore ==
    [][\A meta \in HintMetas, layer \in Hints :
          (/\ metrics'.total_stores = metrics.total_stores + 1
           /\ World' = StoreCall(World, cfg, <<"a">>, meta, layer, NoConv, FALSE))
          => WritesOnly(layer) /\ CountsOnly(layer)]_vars

\* C15: a retrieve served from the cache returns a response flagged cache_hit
\* and leaves every response object built before, the cached one included, as
\* it was: one returned with cache_hit = false keeps cache_hit = false
C15_CacheHitReturnsClone ==
    [][ServesCached =>
          /\ resps'[out'.resp].cache_hit
          /\ Len(resps') >= Len(resps)
          /\ \A r \in 1..Len(resps) : resps'[r] = resps[r]]_vars

----------------------------------------------------------------------------
(* Claims about the synthetic item of a consolidation (SpecMean) *)

\* the residents that the step removed, in store order
Absorbed == SelectSeq(sess, LAMBDA i : i \notin Range(sess'))

\* the synthetic items that the step made resident
Synthetic == { n \in Range(sess') \ Range(sess) : heap'[n].metadata.type = "consolidated" }

\* C21: the synthetic item of a consolidation has the mean of its members'
\* importance_score as importance_score
C21_MeanImportance ==
    [][metrics'.sess_consolidations = metrics.sess_consolidations + 1 =>
         \A n \in Synthetic :
            heap'[n].importance_score * Len(Absorbed) = SumImportance(Absorbed, heap)
      ]_vars

----------------------------------------------------------------------------
(* Claims about the retrieval package *)

\* C22: BM25Search.search and SessionMemory.search make the same accept/reject
\* decision: searched with the same filters, an item and a document of the same
\* metadata are both kept or both dropped.
C22_SameFilterDecision ==
    out.op = "filter_search" =>
        \A i \in out.session_all, d \in out.bm25_all :
            heap[i].metadata = bm25.documents[d].metadata =>
                (i \in out.session_ids <=> d \in out.bm25_ids)

\* is the IDF value at least epsilon
IdfGeEpsilon(idf) == idf.kind = "epsilon" \/ (idf.kind = "log" /\ LogGeEpsilon(idf.arg))

\* C23: for every token, in a document or not, and every index that
\* add_document and remove_document lead to, idf(t) >= epsilon.
C23_IdfFloor == out.op = "get_idf" => IdfGeEpsilon(out.idf)

\* the IDF values that the scoring of a search reads are at least epsilon
IdfFloorOfIndexedTokens ==
    \A t \in DOMAIN bm25.doc_freqs : IdfGeEpsilon(GetIdf(bm25, t))

\* an IDF that the floor raised, of a document frequency above the corpus size
IdfFloored ==
    \E t \in DOMAIN bm25.idf_scores :
        bm25.idf_scores[t].kind = "epsilon" /\ bm25.doc_freqs[t] > bm25.total_docs

----------------------------------------------------------------------------
(* Claims about the chunker (SpecChunk) *)

\* the chunks cover the text: the first starts at 0, each next one starts at or
\* before the end of the one before, the last ends at len(text), and each holds
\* text[start_pos:end_pos]
Covers(chunks, text) ==
    /\ chunks # <<>>
    /\ chunks[1].start_pos = 0
    /\ \A i \in 1..(Len(chunks) - 1) : chunks[i + 1].start_pos <= chunks[i].end_pos
    /\ chunks[Len(chunks)].end_pos = Len(text)
    /\ \A i \in 1..Len(chunks) :
          /\ 0 <= chunks[i].start_pos
          /\ chunks[i].start_pos <= chunks[i].end_pos
          /\ chunks[i].end_pos <= Len(text)
          /\ chunks[i].content = SubSeq(text, chunks[i].start_pos + 1, chunks[i].end_pos)

Finished == chunker.status \in {"returned", "raised"} /\ chunker.text # <<>>

\* C24: chunk_text of a non-empty text returns chunks that cover the text,
\* for every configuration.
C24_ChunksCover ==
    Finished => chunker.status = "returned" /\ Covers(chunker.chunks, chunker.text)

\* the same, for the configurations with adaptive_overlap or without overlap
CoverWhenAdaptive ==
    Finished /\ (chunker.config.adaptive_overlap \/ chunker.config.base_overlap = 0)
        => chunker.status = "returned" /\ Covers(chunker.chunks, chunker.text)

\* C25: chunk_text makes progress: current_pos strictly increases from one
\* emitted chunk to the next, with adaptive_overlap on or off.
C25_Progress ==
    [][chunker.status = "walking" /\ chunker'.status # "raised"
           => chunker'.current_pos > chunker.current_pos]_vars

\* the same, for the configurations with adaptive_overlap or without overlap
ProgressWhenAdaptive ==
    [][(/\ chunker.status = "walking" /\ chunker'.status # "raised"
        /\ (chunker.config.adaptive_overlap \/ chunker.config.base_overlap = 0))
           => chunker'.current_pos > chunker.current_pos]_vars

\* C26: chunk_text of a text no longer than chunk_size returns exactly one
\* chunk, which holds the whole text.
C26_ShortTextOneChunk ==
    (/\ chunker.status = "returned"
     /\ chunker.text # <<>>
     /\ Len(chunker.text) <= chunker.config.chunk_size)
    => Len(chunker.chunks) = 1 /\ chunker.chunks[1].content = chunker.text

----------------------------------------------------------------------------
(* Claims about the fusion (SpecFuse) *)

\* the component lists as the retriever of the last call received them
ComponentList(component) ==
    IF component = "keyword" THEN fusion.keyword
    ELSE IF fusion.class = "HybridRetrievalEngine" THEN <<>>
    ELSE IF component = "semantic" THEN fusion.semantic ELSE fusion.graph

AllEqual(results) == \A i, j \in 1..Len(results) : FracEq(results[i].score, results[j].score)

\* C27: the fusion normalises each component's list so that every normalised
\* score lies in [0,1], and is 1.0 when all scores of the list are equal.
C27_Normalized ==
    fusion.status = "retrieved" =>
        \A i \in 1..Len(fusion.fused) : \A c \in DOMAIN fusion.fused[i].component_scores :
            LET score == fusion.fused[i].component_scores[c]
            IN /\ FracGe(score, Frac(0, 1))
               /\ FracGe(Frac(1, 1), score)
               /\ AllEqual(ComponentList(c)) => FracEq(score, Frac(1, 1))

\* the same, of HybridRetrievalEngine alone
NormalizedByEngine == fusion.status = "retrieved" /\ fusion.class = "HybridRetrievalEngine" => C27_Normalized

ComponentIds(component) == { ComponentList(component)[i].id : i \in 1..Len(ComponentList(component)) }

AllIds == ComponentIds("keyword") \cup ComponentIds("semantic") \cup ComponentIds("graph")

\* the normalised score of the id in the component's list, 0 where it has none
ScoreIn(component, id) ==
    LET normal == NormalizeScores(fusion.class, ComponentList(component))
    IN IF id \in ComponentIds(component)
       THEN normal[CHOOSE i \in 1..Len(normal) : normal[i].id = id].score
       ELSE Frac(0, 1)

\* the weighted sum of the id's component scores
Combined(id) ==
    FracAdd(FracMul(ScoreIn("keyword", id), fusion.weights.keyword),
            FracAdd(FracMul(ScoreIn("semantic", id), fusion.weights.semantic),
                    FracMul(ScoreIn("graph", id), fusion.weights.graph)))

ResultIds == { fusion.results[i].id : i \in 1..Len(fusion.results) }

\* C28: the hybrid retrieve returns the ids of the component lists, each once,
\* in descending order of the combined weighted score, cut at max_results,
\* each with method "hybrid".
C28_FusedUnion ==
    fusion.status = "retrieved" /\ fusion.class = "HybridRetriever" =>
        LET r == fusion.results
        IN /\ \A i, j \in 1..Len(r) : i # j => r[i].id # r[j].id
           /\ ResultIds \subseteq AllIds
           /\ Len(r) = IF Cardinality(AllIds) < fusion.max_results
                       THEN Cardinality(AllIds) ELSE fusion.max_results
           /\ \A i \in 1..Len(r) : FracEq(r[i].score, Combined(r[i].id)) /\ r[i].method = "hybrid"
           /\ \A i \in 1..Len(r), j \in 1..Len(r) : i < j => FracGe(r[i].score, r[j].score)
           /\ \A id \in AllIds \ ResultIds : \A i \in 1..Len(r) : FracGe(r[i].score, Combined(id))

\* the vector backend returned nothing, BM25 three documents and the graph one
\* other document, and all four were returned
C28_Witness ==
    /\ fusion.status = "retrieved" /\ fusion.class = "HybridRetriever"
    /\ fusion.semantic = <<>>
    /\ Len(fusion.keyword) = 3
    /\ ComponentIds("graph") = {"d4"}
    /\ ResultIds = {"d1", "d2", "d3", "d4"}
    /\ Len(fusion.results) = 4

\* the place of the id in a fused list
Rank(fused, id) == CHOOSE i \in 1..Len(fused) : fused[i].id = id

KeywordOnly == ComponentIds("keyword") \ (ComponentIds("semantic") \cup ComponentIds("graph"))

\* the last two calls were of one class, the later one with the keyword
\* weight of the earlier one or a larger one
WeightRaised ==
    /\ fusion.status = "retrieved"
    /\ fusion.prev.status = "retrieved"
    /\ fusion.prev.class = fusion.class
    /\ FracGe(fusion.weights.keyword, fusion.prev.weights.keyword)

\* C29: with the component lists and the other weights fixed, a larger keyword
\* weight does not lower the rank of a result that scores by keyword only.
C29_Monotone ==
    WeightRaised =>
        \A id \in KeywordOnly : Rank(fusion.fused, id) <= Rank(fusion.prev.fused, id)

\* a larger keyword weight lifted a keyword-only result over another result
C29_Witness ==
    /\ WeightRaised
    /\ fusion.class = "HybridRetriever"
    /\ \E id \in KeywordOnly : Rank(fusion.fused, id) < Rank(fusion.prev.fused, id)

----------------------------------------------------------------------------
(* Claims about concurrent readers (SpecRace) *)

\* C30: access_count of every item never decreases, also when get_recent and
\* search mark the same item from concurrent threads.
C30_AccessCountMonotone ==
    [][\A i \in DOMAIN heap : heap'[i].access_count >= heap[i].access_count]_vars

\* an update was lost: fewer accesses counted than calls returned the item
LostUpdate ==
    /\ threads = <<>>
    /\ \E i \in DOMAIN heap : heap[i].access_count < out.retrieves

----------------------------------------------------------------------------
(* Claims about the cache and the counters under threads (SpecLock) *)

\* C31: under any interleaving of store and retrieve calls from different
\* threads, no call fails at the response cache, and no counter update is
\* lost: once every call has returned, total_stores is the number of stores
\* and cache_hits + cache_misses the number of retrieves.
C31_CacheAndCountersAtomic ==
    /\ out.status # "raised"
    /\ threads = <<>> =>
          /\ metrics.total_stores = Len(heap)
          /\ metrics.cache_hits + metrics.cache_misses = out.retrieves

\* a retrieve was left by the KeyError of the cache lookup
CacheLookupRaised == out.op = "retrieve" /\ out.status = "raised"

\* every call has returned and a store is missing from total_stores
StoreCountLost == threads = <<>> /\ metrics.total_stores < Len(heap)

----------------------------------------------------------------------------
(* Claims about returned responses (Spec) *)

\* the items of the response objects built so far
ResponseItems == UNION { Range(resps[r].items) : r \in 1..Len(resps) }

\* C32: the items of an already returned response are copies: no later
\* store, retrieve or search changes their access_count, last_accessed or
\* relevance_score.
C32_ResponseSnapshot ==
    [][\A i \in ResponseItems :
          /\ heap'[i].access_count = heap[i].access_count
          /\ heap'[i].last_accessed = heap[i].last_accessed
          /\ heap'[i].relevance_score = heap[i].relevance_score]_vars

----------------------------------------------------------------------------
(* Claims about the metrics (SpecFault) *)

\* this step is a store call that returns its item
StoreReturns == Len(heap') = Len(heap) + 1 /\ out'.op = "store" /\ out'.status = "ok"

\* this step is a retrieve call that returns a response: any, or a computed one
RetrieveReturns ==
    out'.retrieves = out.retrieves + 1 /\ out'.op = "retrieve" /\ out'.status \in {"ok", "cached"}
RetrieveComputes ==
    out'.retrieves = out.retrieves + 1 /\ out'.op = "retrieve" /\ out'.status = "ok"

CountsCalls ==
    /\ metrics'.total_stores = metrics.total_stores + (IF StoreReturns THEN 1 ELSE 0)
    /\ metrics'.total_retrievals = metrics.total_retrievals + (IF RetrieveReturns THEN 1 ELSE 0)

CountsFreshCalls ==
    /\ metrics'.total_stores = metrics.total_stores + (IF StoreReturns THEN 1 ELSE 0)
    /\ metrics'.total_retrievals = metrics.total_retrievals + (IF RetrieveComputes THEN 1 ELSE 0)

\* C33: total_stores counts the store calls that returned and total_retrievals
\* the retrieve calls that returned, computed or served from the cache.
C33_TotalsCountCalls == [][CountsCalls]_vars

\* C33, amended: total_retrievals counts the retrieve calls that returned a
\* computed response; one served from the cache counts in cache_hits only.
C33_TotalsCountFreshCalls == [][CountsFreshCalls]_vars

\* a store and a computed retrieve were counted, and a retrieve served from
\* the cache has just returned
C33_Witness ==
    /\ out.op = "retrieve" /\ out.status = "cached"
    /\ out.retrieves = 2
    /\ metrics.total_retrievals = 1
    /\ metrics.total_stores = 1
    /\ metrics.cache_hits = 1

----------------------------------------------------------------------------
(* Claims about the index statistics (SpecBm25) *)

\* the indexed documents that contain the token at least once
DocsWith(t) == { d \in DOMAIN bm25.documents : t \in Range(bm25.documents[d].tokens) }

\* the tokens of the indexed documents
IndexedTokens == UNION { Range(bm25.documents[d].tokens) : d \in DOMAIN bm25.documents }

\* the posting lists are those of the indexed documents, and total_docs their number
PostingsExact ==
    /\ DOMAIN bm25.inverted_index = IndexedTokens
    /\ \A t \in IndexedTokens : bm25.inverted_index[t] = DocsWith(t)
    /\ bm25.total_docs = Cardinality(DOMAIN bm25.documents)

\* C34: after any sequence of add_document (of a new or an indexed id) and
\* remove_document, doc_freqs[t] is the size of t's posting list, which is the
\* number of indexed documents that contain t; a token of no document has no
\* entry; total_docs is the number of indexed documents.
C34_StatisticsExact ==
    /\ PostingsExact
    /\ DOMAIN bm25.doc_freqs = IndexedTokens
    /\ \A t \in IndexedTokens : bm25.doc_freqs[t] = Cardinality(bm25.inverted_index[t])

\* a document frequency above the number of indexed documents
DocFreqAboveTotal == \E t \in DOMAIN bm25.doc_freqs : bm25.doc_freqs[t] > bm25.total_docs

----------------------------------------------------------------------------
(* Claims about the clears (SpecClear) *)

\* this step is a retrieve that follows a clear_immediate or clear_session
RetrieveAfterClear ==
    /\ out.op \in {"clear_immediate", "clear_session"}
    /\ out'.op = "retrieve" /\ out'.retrieves = out.retrieves + 1

\* the item is resident, after the step, in a tier the request asks for
ResidentWhereAsked(i, req) ==
    \/ req.include_immediate /\ InSeq(i, buffer')
    \/ req.include_session /\ InSeq(i, sess')
    \/ req.include_long_term /\ InSeq(i, lt')

\* no item that the clear removed is returned unless a requested tier holds it
ClearedNotReturned ==
    RetrieveAfterClear =>
        \A i \in Range(out'.ids) \cap Range(out.ids) : ResidentWhereAsked(i, out'.req)

\* C35: the retrieve that follows a clear_immediate or clear_session returns
\* no item that the clear removed and that no requested tier holds, also
\* when its request was answered before the clear.
C35_ClearedNotReturned == [][ClearedNotReturned]_vars

\* the same of the retrieves that compute their response
ClearedNotReturnedFresh == [][out'.status # "cached" => ClearedNotReturned]_vars

----------------------------------------------------------------------------
(* Claims about the asynchronous long-term write (FairSpecLoop) *)

\* item i was built by a store that routes it to LongTerm
RoutedToLongTerm(i) ==
    /\ i <= Len(heap)
    /\ WritesLongTerm(TargetLayers(heap[i].metadata, NoHint, cfg), cfg)

\* C36: with enable_async, every item that store routes to LongTerm is
\* eventually in the LongTerm store, whether store ran under store_sync or was
\* awaited in a running loop (the backend write does not fail).
C36_EventuallyInLongTerm ==
    \A i \in 1..LoopItems : RoutedToLongTerm(i) ~> InSeq(i, lt)

\* store_sync has returned (its loop is closed) and its item is in LongTerm,
\* after an awaited store whose item is there too
C36_Witness ==
    /\ coros = <<>> /\ ltTasks = <<>>
    /\ Len(heap) >= 2
    /\ RoutedToLongTerm(1) /\ RoutedToLongTerm(2)
    /\ InSeq(1, lt) /\ InSeq(2, lt)

----------------------------------------------------------------------------
(* Claims about the scope of a retrieve (SpecScope) *)

\* C37: every item of the response to a retrieve whose request has filters
\* satisfies the filter predicate, whichever tier it came from.
C37_ResponseSatisfiesFilters ==
    (Retrieved /\ out.req.filters # NoFilters)
        => \A k \in 1..Len(out.ids) : ApplyFilters(heap[out.ids[k]].metadata, out.req.filters)

\* C38: every item of the response to a retrieve with conversation_id c has
\* conversation_id c, whichever tiers are included.
C38_ConversationIsolation ==
    (Retrieved /\ ConvSet(out.req.conversation_id))
        => \A k \in 1..Len(out.ids) : heap[out.ids[k]].conversation_id = out.req.conversation_id

\* C39: a response never has more than request.max_results items, with
\* max_tokens set or not, however many tiers contribute.
C39_AtMostMaxResults ==
    Retrieved => Len(out.ids) <= out.req.max_results

====
